---- MODULE Spec2Model ----
(***************************************************************************)
(* Swap lifecycle and per-swap messaging of the clothing-swap backend.     *)
(*                                                                         *)
(* The DynamoDB tables Swaps and Messages are sets of items.  A request is *)
(* run by a worker: its context (procs[p]) holds the handler's position    *)
(* (pc), the request, the handler's local variables and, once the handler  *)
(* has returned or raised, the HTTP response.  Steps(st, c, t) is one step *)
(* of a handler: the code up to and including its next call to a table.    *)
(*                                                                         *)
(* Spec runs every handler to completion in one action (the handlers are   *)
(* `async def` functions that never await I/O, so one worker process runs  *)
(* a request without interleaving).  The step operators are the same ones  *)
(* a several-worker specification takes one at a time.                     *)
(***************************************************************************)
EXTENDS Integers, Sequences, FiniteSets, TLC

VARIABLES users, listings, swaps, messages, nextSwapId, now, procs, bucket

vars == <<users, listings, swaps, messages, nextSwapId, now, procs, bucket>>

\* ------------------------------------------------------------- bounds
MaxSwaps == 2
MaxMessages == 4
MaxClock == 2
\* The images of one request, the keys of the bucket, the stored listings.
MaxImages == 3
MaxKeys == 6
MaxListings == 2

\* ------------------------------------------------------------- values
\* Python's None, and a key that a dict does not hold.
None == "None"
Absent == "ABSENT"
\* A timestamp attribute that is None ("completedAt": None).
NoneTime == 0

SYSTEM_SENDER_ID == "SYSTEM"

SWAP_ACCEPTED == "swap_accepted"
SWAP_REJECTED == "swap_rejected"
SWAP_COMPLETED == "swap_completed"
SWAP_CANCELLED == "swap_cancelled"

valid_statuses == {"pending", "accepted", "rejected", "completed", "cancelled"}

\* ------------------------------------------------------------- inputs
ListingIds == {"l1", "l2", "l3", "l4"}
SwapIds == 1..MaxSwaps
MessageIds == 1..MaxMessages
Texts == {"hi"}
Details == {"cafe"}
StatusInputs == valid_statuses \cup {"bogus", Absent}

NoMetadata ==
    [previous_status |-> None, new_status |-> None, actor_id |-> None, timestamp |-> NoneTime]

NoData == [status |-> Absent, message |-> Absent, meetupDetails |-> Absent]

NoReq ==
    [swap_id |-> 0, user_id |-> Absent, status |-> Absent, message |-> Absent,
     meetupDetails |-> Absent, requesterId |-> Absent, ownerId |-> Absent,
     requesterListingId |-> Absent, ownerListingId |-> Absent,
     message_id |-> 0, content |-> Absent, query |-> {}, form |-> {},
     user_data |-> {}]

NoLoc ==
    [data |-> NoData, existing |-> {}, timestamp |-> NoneTime,
     previous_status |-> None, new_status |-> None, status_changed |-> FALSE,
     updated_swap |-> {}, event_type |-> None, content |-> "",
     recipient_ids |-> <<>>, metadata |-> NoMetadata, msg_timestamp |-> NoneTime,
     created |-> {}, recipient_id |-> None, message |-> {},
     unread |-> [count |-> 0, swaps |-> <<>>], listed |-> <<>>,
     replaced |-> {}, search |-> {},
     location_data |-> [point |-> {}, floats |-> FALSE], uploaded_images |-> <<>>,
     image_index |-> 0, failed_image |-> 0, delete_attempts |-> <<>>,
     new_listing |-> {}, replaced_user |-> {}, new_user |-> {}]

IdleCtx ==
    [op |-> "idle", pc |-> "idle", req |-> NoReq, loc |-> NoLoc,
     status_code |-> 0, detail |-> "", uuids |-> <<>>, refused_put |-> 0,
     pre |-> [swaps |-> {}, messages |-> {}, users |-> {}, listings |-> {},
              bucket |-> {}]]

\* ------------------------------------------------------------- tables
\* SwapRepository.get_swap: the item with this key, as a set of at most one.
get_swap(swapItems, swap_id) == {s \in swapItems : s.swapId = swap_id}

\* UserRepository.create_user, the item: missing optional fields take their
\* defaults (the empty dict of address is the empty set).
user_item(user_data, timestamp) ==
    [userId |-> user_data.userId, email |-> user_data.email,
     firstName |-> user_data.firstName, lastName |-> user_data.lastName,
     phone |-> IF user_data.phone = Absent THEN "" ELSE user_data.phone,
     address |-> {}, profileImageUrl |-> "",
     createdAt |-> timestamp, updatedAt |-> timestamp, isActive |-> TRUE]

\* The payload a user signs up with, and the user as stored at time 1.
Signup(user_id, email) ==
    [userId |-> user_id, email |-> email, firstName |-> "A", lastName |-> "B",
     phone |-> Absent]

StoredUser(user_id) == user_item(Signup(user_id, "a@x"), 1)

\* UserRepository.get_user on the items of the Users table.
get_user_item(userItems, user_id) == {u \in userItems : u.userId = user_id}

get_user(user_id) == get_user_item(users, user_id)

\* The identifiers of the stored users.
UserIds == {u.userId : u \in users}

get_listing(listing_id) == {l \in listings : l.listingId = listing_id}

get_message(messageItems, swap_id, message_id) ==
    {m \in messageItems : m.swapId = swap_id /\ m.messageId = message_id}

\* The identifiers no stored message uses.
FreeMessageIds(messageItems) ==
    {i \in MessageIds : \A m \in messageItems : m.messageId # i}

\* uuid4, the k-th draw of the request in context c: the drawn value when
\* the table does not hold it yet (none when the identifiers have run out).
uuid4(messageItems, c, k) ==
    IF k <= Len(c.uuids) THEN {c.uuids[k]} \cap FreeMessageIds(messageItems) ELSE {}

\* ------------------------------------------------------------- responses
Respond(c, code, detail) ==
    [c EXCEPT !.pc = "done", !.status_code = code, !.detail = detail]

Goto(c, pc) == [c EXCEPT !.pc = pc]

One(st, c) == {[st |-> st, c |-> c]}

Item(S) == CHOOSE x \in S : TRUE

\* The numbers of S in ascending order.
RECURSIVE Ascending(_)
Ascending(S) ==
    IF S = {} THEN <<>>
    ELSE LET lo == CHOOSE x \in S : \A y \in S : x <= y
         IN  <<lo>> \o Ascending(S \ {lo})

\* ------------------------------------------------------------- swap creation
required_fields == {"requesterId", "ownerId", "requesterListingId", "ownerListingId"}

\* Mutant: the self-swap check is missing.
IsSelfSwap_Never(d) == FALSE

\* swaps_router.create_swap: requester and owner must be different users.
IsSelfSwap(d) == d.requesterId = d.ownerId

\* Mutant: the listing's status is not looked at.
ListingUsable_AnyStatus(ls) == ls # {}

ListingUsable(ls) == ls # {} /\ Item(ls).status = "active"

\* Mutant: a new swap is stamped as completed.
create_swap_item_Completed(swap_id, d, requester_id, t) ==
    [swapId |-> swap_id,
     requesterId |-> requester_id,
     ownerId |-> d.ownerId,
     requesterListingId |-> d.requesterListingId,
     ownerListingId |-> d.ownerListingId,
     status |-> "pending",
     message |-> IF d.message = Absent THEN "" ELSE d.message,
     createdAt |-> t,
     updatedAt |-> t,
     completedAt |-> t,
     meetupDetails |-> IF d.meetupDetails = Absent THEN "{}" ELSE d.meetupDetails]

\* SwapRepository.create_swap: the item put into the Swaps table.
create_swap_item(swap_id, d, requester_id, t) ==
    [swapId |-> swap_id,
     requesterId |-> requester_id,
     ownerId |-> d.ownerId,
     requesterListingId |-> d.requesterListingId,
     ownerListingId |-> d.ownerListingId,
     status |-> "pending",
     message |-> IF d.message = Absent THEN "" ELSE d.message,
     createdAt |-> t,
     updatedAt |-> t,
     completedAt |-> NoneTime,
     meetupDetails |-> IF d.meetupDetails = Absent THEN "{}" ELSE d.meetupDetails]

\* POST /swaps/: validation, the four lookups and the put.
create_swap(st, c, t) ==
    LET d == c.req
        requester_listing == get_listing(d.requesterListingId)
        owner_listing == get_listing(d.ownerListingId)
        new_swap == create_swap_item(st.nextSwapId, d, d.requesterId, t)
    IN  IF \E f \in required_fields : d[f] = Absent
          THEN One(st, Respond(c, 400, "Missing required field"))
        ELSE IF IsSelfSwap(d)
          THEN One(st, Respond(c, 400, "Cannot create swap with yourself"))
        ELSE IF get_user(d.requesterId) = {}
          THEN One(st, Respond(c, 404, "Requester user not found"))
        ELSE IF get_user(d.ownerId) = {}
          THEN One(st, Respond(c, 404, "Owner user not found"))
        ELSE IF ~ListingUsable(requester_listing)
          THEN One(st, Respond(c, 404, "Requester listing not found or not active"))
        ELSE IF ~ListingUsable(owner_listing)
          THEN One(st, Respond(c, 404, "Owner listing not found or not active"))
        ELSE IF Item(requester_listing).userId # d.requesterId
          THEN One(st, Respond(c, 403, "Requester doesn't own the offered listing"))
        ELSE IF Item(owner_listing).userId # d.ownerId
          THEN One(st, Respond(c, 403, "Owner doesn't own the requested listing"))
        ELSE IF st.nextSwapId > MaxSwaps
          THEN {}
        ELSE One([st EXCEPT !.swaps = @ \cup {new_swap}, !.nextSwapId = @ + 1],
                 Respond([c EXCEPT !.loc.updated_swap = {new_swap}], 200,
                         "Swap request created successfully"))

\* ------------------------------------------------------------- swap transitions
\* swaps_router.update_swap: the update data is the payload without userId.
update_data_of(op, req) ==
    CASE op = "update_swap" ->
           [status |-> req.status, message |-> req.message,
            meetupDetails |-> req.meetupDetails]
      [] op = "accept_swap" ->
           [status |-> "accepted",
            message |-> IF req.message = Absent THEN "" ELSE req.message,
            meetupDetails |-> IF req.meetupDetails = Absent THEN "{}" ELSE req.meetupDetails]
      [] op = "reject_swap" ->
           [status |-> "rejected",
            message |-> IF req.message = Absent THEN "" ELSE req.message,
            meetupDetails |-> Absent]
      [] op = "complete_swap" ->
           [status |-> "completed",
            message |-> IF req.message = Absent THEN "" ELSE req.message,
            meetupDetails |-> Absent]

NotAuthorizedDetail(op) ==
    CASE op = "update_swap" -> "Swap not found or not authorized to update"
      [] op = "accept_swap" -> "Swap not found or not authorized to accept"
      [] op = "reject_swap" -> "Swap not found or not authorized to reject"
      [] op = "complete_swap" -> "Swap not found or not authorized to complete"

SuccessDetail(op) ==
    CASE op = "update_swap" -> "Swap updated successfully"
      [] op = "accept_swap" -> "Swap accepted successfully"
      [] op = "reject_swap" -> "Swap rejected successfully"
      [] op = "complete_swap" -> "Swap completed successfully"

\* PUT /swaps/{swap_id}: validation and the router's own lookup of the swap.
update_swap(st, c, t) ==
    IF c.req.user_id = Absent
      THEN One(st, Respond(c, 400, "userId is required for authorization"))
    ELSE IF c.req.status # Absent /\ c.req.status \notin valid_statuses
      THEN One(st, Respond(c, 400, "Invalid status"))
    ELSE IF get_swap(st.swaps, c.req.swap_id) = {}
      THEN One(st, Respond(c, 404, "Swap not found"))
    ELSE One(st, Goto([c EXCEPT !.loc.data = update_data_of(c.op, c.req)],
                      "update_swap_status"))

\* POST /swaps/{swap_id}/accept, /reject, /complete: build the update data.
convenience_swap(st, c, t) ==
    IF c.req.user_id = Absent
      THEN One(st, Respond(c, 400, "userId is required for authorization"))
    ELSE One(st, Goto([c EXCEPT !.loc.data = update_data_of(c.op, c.req)],
                      "update_swap_status"))

\* Mutant: any user may update the swap.
IsParticipant_Anyone(existing, user_id) == TRUE

\* update_swap_status: the user is the requester or the owner.
IsParticipant(existing, user_id) ==
    ~(existing.requesterId # user_id /\ existing.ownerId # user_id)

\* Mutant: every request that carries a status counts as a change.
StatusChanged_AnyStatus(data, previous_status, new_status) == data.status # Absent

\* update_swap_status: "status" in data and previous_status != new_status.
StatusChanged(data, previous_status, new_status) ==
    data.status # Absent /\ previous_status # new_status

\* update_swap_status, first part: read the swap, authorize, note the status.
update_swap_status(st, c, t) ==
    LET existing == get_swap(st.swaps, c.req.swap_id)
        previous_status == Item(existing).status
        new_status == IF c.loc.data.status # Absent THEN c.loc.data.status
                      ELSE previous_status
    IN  IF existing = {}
          THEN One(st, Respond(c, 404, NotAuthorizedDetail(c.op)))
        ELSE IF ~IsParticipant(Item(existing), c.req.user_id)
          THEN One(st, Respond(c, 404, NotAuthorizedDetail(c.op)))
        ELSE One(st, Goto([c EXCEPT !.loc.existing = existing,
                                    !.loc.timestamp = t,
                                    !.loc.previous_status = previous_status,
                                    !.loc.new_status = new_status,
                                    !.loc.status_changed =
                                        StatusChanged(c.loc.data, previous_status, new_status)],
                          "update_item"))

\* An item of the Swaps table that holds only its key.
KeyOnlySwap(swap_id) ==
    [swapId |-> swap_id, requesterId |-> None, ownerId |-> None,
     requesterListingId |-> None, ownerListingId |-> None, status |-> None,
     message |-> None, createdAt |-> NoneTime, updatedAt |-> NoneTime,
     completedAt |-> NoneTime, meetupDetails |-> None]

\* Mutant: a swap in a terminal status keeps it.
ApplyUpdate_TerminalKept(item, data, timestamp) ==
    [item EXCEPT
       !.updatedAt = timestamp,
       !.status = IF data.status # Absent /\ @ \notin {"rejected", "completed", "cancelled"}
                    THEN data.status ELSE @,
       !.completedAt = IF data.status = "completed" THEN timestamp ELSE @,
       !.message = IF data.message # Absent THEN data.message ELSE @,
       !.meetupDetails = IF data.meetupDetails # Absent THEN data.meetupDetails ELSE @]

\* The SET expression update_swap_status builds, applied to one item.
ApplyUpdate(item, data, timestamp) ==
    [item EXCEPT
       !.updatedAt = timestamp,
       !.status = IF data.status # Absent THEN data.status ELSE @,
       !.completedAt = IF data.status = "completed" THEN timestamp ELSE @,
       !.message = IF data.message # Absent THEN data.message ELSE @,
       !.meetupDetails = IF data.meetupDetails # Absent THEN data.meetupDetails ELSE @]

\* table.update_item: updates the item with this key, creating it when the
\* table holds none (DynamoDB UpdateItem without a condition expression).
update_item_result(swapItems, swap_id, data, timestamp) ==
    LET old == get_swap(swapItems, swap_id)
    IN  ApplyUpdate(IF old = {} THEN KeyOnlySwap(swap_id) ELSE Item(old), data, timestamp)

\* Mutant: the return to pending is announced like a cancellation.
EventTypeFor_PendingAnnounced(new_status) ==
    CASE new_status = "accepted" -> SWAP_ACCEPTED
      [] new_status = "rejected" -> SWAP_REJECTED
      [] new_status = "completed" -> SWAP_COMPLETED
      [] new_status \in {"cancelled", "pending"} -> SWAP_CANCELLED
      [] OTHER -> None

\* Mutant: the branch for cancelled is missing.
EventTypeFor_NoCancelled(new_status) ==
    CASE new_status = "accepted" -> SWAP_ACCEPTED
      [] new_status = "rejected" -> SWAP_REJECTED
      [] new_status = "completed" -> SWAP_COMPLETED
      [] OTHER -> None

\* _create_status_change_messages: the event of the new status (None: no message).
EventTypeFor(new_status) ==
    CASE new_status = "accepted" -> SWAP_ACCEPTED
      [] new_status = "rejected" -> SWAP_REJECTED
      [] new_status = "completed" -> SWAP_COMPLETED
      [] new_status = "cancelled" -> SWAP_CANCELLED
      [] OTHER -> None

ContentFor(new_status) ==
    CASE new_status = "accepted" ->
           "Swap request has been accepted! You can now coordinate the meetup details."
      [] new_status = "rejected" -> "Swap request has been rejected."
      [] new_status = "completed" ->
           "Swap has been marked as completed! Thank you for using our platform."
      [] new_status = "cancelled" -> "Swap has been cancelled."
      [] OTHER -> ""

\* update_params always names "#status" in ExpressionAttributeNames, and the
\* update expression uses it only when "status" is in data: DynamoDB refuses
\* a request that names an attribute its expressions do not use.
UnusedAttributeName(data) == data.status = Absent

\* Mutant: the status to compare and to report is the one the write found.
update_item_StatusAtWrite(st, c, t) ==
    LET found == get_swap(st.swaps, c.req.swap_id)
        updated == update_item_result(st.swaps, c.req.swap_id, c.loc.data, c.loc.timestamp)
        st2 == [st EXCEPT !.swaps = (@ \ found) \cup {updated}]
        c2 == [c EXCEPT !.loc.updated_swap = {updated}, !.loc.replaced = found]
        previous == IF found = {} THEN None ELSE Item(found).status
        event_type == EventTypeFor(c.loc.new_status)
    IN  IF c.loc.data.status = Absent
          THEN One(st, Respond(c, 500, "Error updating swap"))
        ELSE IF previous # c.loc.new_status /\ event_type # None
          THEN One(st2, Goto([c2 EXCEPT
                   !.loc.event_type = event_type,
                   !.loc.content = ContentFor(c.loc.new_status),
                   !.loc.recipient_ids = <<updated.requesterId, updated.ownerId>>,
                   !.loc.metadata = [previous_status |-> previous,
                                     new_status |-> c.loc.new_status,
                                     actor_id |-> c.req.user_id,
                                     timestamp |-> c.loc.timestamp]],
                   "create_system_message"))
        ELSE One(st2, Respond(c2, 200, SuccessDetail(c.op)))

\* update_swap_status, second part: the write, then the decision to notify.
\* A refused write raises; the routers answer any exception with 500.
update_item(st, c, t) ==
    LET updated == update_item_result(st.swaps, c.req.swap_id, c.loc.data, c.loc.timestamp)
        st2 == [st EXCEPT !.swaps = (@ \ get_swap(@, c.req.swap_id)) \cup {updated}]
        c2 == [c EXCEPT !.loc.updated_swap = {updated},
                        !.loc.replaced = get_swap(st.swaps, c.req.swap_id)]
        event_type == EventTypeFor(c.loc.new_status)
    IN  IF UnusedAttributeName(c.loc.data)
          THEN One(st, Respond(c, 500, "Error updating swap"))
        ELSE IF c.loc.status_changed /\ event_type # None
          THEN One(st2, Goto([c2 EXCEPT
                   !.loc.event_type = event_type,
                   !.loc.content = ContentFor(c.loc.new_status),
                   !.loc.recipient_ids = <<updated.requesterId, updated.ownerId>>,
                   !.loc.metadata = [previous_status |-> c.loc.previous_status,
                                     new_status |-> c.loc.new_status,
                                     actor_id |-> c.req.user_id,
                                     timestamp |-> c.loc.timestamp]],
                   "create_system_message"))
        ELSE One(st2, Respond(c2, 200, SuccessDetail(c.op)))

\* ------------------------------------------------------------- system messages
\* MessageRepository.create_system_message: the item put for one recipient.
system_message_item(swap_id, message_id, recipient_id, content, timestamp, event_type, metadata) ==
    [swapId |-> swap_id,
     messageId |-> message_id,
     senderId |-> SYSTEM_SENDER_ID,
     recipientId |-> recipient_id,
     content |-> content,
     timestamp |-> timestamp,
     isRead |-> FALSE,
     messageType |-> "system",
     eventType |-> event_type,
     metadata |-> metadata]

\* create_system_message: the timestamp is taken once, before the loop.
create_system_message(st, c, t) ==
    One(st, Goto([c EXCEPT !.loc.msg_timestamp = t, !.loc.created = {}], "put_system_message"))

\* What follows create_system_message in its caller.
AfterSystemMessages(st, c) ==
    IF c.op = "delete_swap"
      THEN One(st, Goto(c, "delete_item"))
      ELSE One(st, Respond(c, 200, SuccessDetail(c.op)))

\* The detail of the 500 answer each swap route gives to an exception.
ErrorDetail(op) ==
    CASE op = "update_swap" -> "Error updating swap"
      [] op = "accept_swap" -> "Error accepting swap"
      [] op = "reject_swap" -> "Error rejecting swap"
      [] op = "complete_swap" -> "Error completing swap"
      [] op = "delete_swap" -> "Error deleting swap"

\* Mutant: a refused put_item undoes the request: the messages already put
\* are removed and the swap is stored as it was.
put_system_message_RolledBack(st, c, t) ==
    LET i == Cardinality(c.loc.created) + 1
    IN  IF i > Len(c.loc.recipient_ids)
          THEN AfterSystemMessages(st, c)
        ELSE IF i = c.refused_put
          THEN One([st EXCEPT !.messages = @ \ c.loc.created,
                              !.swaps = (@ \ get_swap(@, c.req.swap_id)) \cup c.loc.replaced],
                   Respond(c, 500, ErrorDetail(c.op)))
        ELSE { [st |-> [st EXCEPT !.messages = @ \cup {m}],
                c |-> [c EXCEPT !.loc.created = @ \cup {m}]] :
               m \in { system_message_item(c.req.swap_id, id, c.loc.recipient_ids[i],
                                           c.loc.content, c.loc.msg_timestamp,
                                           c.loc.event_type, c.loc.metadata) :
                       id \in uuid4(st.messages, c, i) } }

\* Mutant: the loop ends after the first recipient.
put_system_message_FirstOnly(st, c, t) ==
    LET i == Cardinality(c.loc.created) + 1
    IN  IF i > 1
          THEN AfterSystemMessages(st, c)
        ELSE { [st |-> [st EXCEPT !.messages = @ \cup {m}],
                c |-> [c EXCEPT !.loc.created = @ \cup {m}]] :
               m \in { system_message_item(c.req.swap_id, id, c.loc.recipient_ids[i],
                                           c.loc.content, c.loc.msg_timestamp,
                                           c.loc.event_type, c.loc.metadata) :
                       id \in uuid4(st.messages, c, i) } }

\* One turn of the loop over recipient_ids: one put_item. When the table
\* refuses it, put_item raises; nothing catches the exception before the
\* route, which answers 500.
put_system_message(st, c, t) ==
    LET i == Cardinality(c.loc.created) + 1
    IN  IF i > Len(c.loc.recipient_ids)
          THEN AfterSystemMessages(st, c)
        ELSE IF i = c.refused_put
          THEN One(st, Respond(c, 500, ErrorDetail(c.op)))
        ELSE { [st |-> [st EXCEPT !.messages = @ \cup {m}],
                c |-> [c EXCEPT !.loc.created = @ \cup {m}]] :
               m \in { system_message_item(c.req.swap_id, id, c.loc.recipient_ids[i],
                                           c.loc.content, c.loc.msg_timestamp,
                                           c.loc.event_type, c.loc.metadata) :
                       id \in uuid4(st.messages, c, i) } }

\* ------------------------------------------------------------- swap deletion
\* Mutant: the requester may delete the swap in any status.
MayDelete_AnyStatus(existing, user_id) == ~(existing.requesterId # user_id)

\* delete_swap: only the requester, and only while the swap is pending.
MayDelete(existing, user_id) ==
    ~(existing.requesterId # user_id \/ existing.status # "pending")

\* DELETE /swaps/{swap_id}: read the swap, authorize, prepare the cancellation.
delete_swap(st, c, t) ==
    LET existing == get_swap(st.swaps, c.req.swap_id)
        NotDeleted == "Swap not found, not authorized to delete, or swap is no longer pending"
    IN  IF c.req.user_id = Absent
          THEN One(st, Respond(c, 400, "userId is required for authorization"))
        ELSE IF existing = {}
          THEN One(st, Respond(c, 404, NotDeleted))
        ELSE IF ~MayDelete(Item(existing), c.req.user_id)
          THEN One(st, Respond(c, 404, NotDeleted))
        ELSE One(st, Goto([c EXCEPT
                 !.loc.existing = existing,
                 !.loc.event_type = SWAP_CANCELLED,
                 !.loc.content = "Swap request has been deleted by the requester.",
                 !.loc.recipient_ids = <<Item(existing).requesterId, Item(existing).ownerId>>,
                 !.loc.metadata = [previous_status |-> Item(existing).status,
                                   new_status |-> Absent,
                                   actor_id |-> c.req.user_id,
                                   timestamp |-> t]],
                 "create_system_message"))

\* Mutant: deleting a swap deletes its messages with it.
delete_item_Cascading(st, c, t) ==
    One([st EXCEPT !.swaps = @ \ get_swap(@, c.req.swap_id),
                   !.messages = {m \in @ : m.swapId # c.req.swap_id}],
        Respond(c, 200, "Swap deleted successfully"))

\* table.delete_item on the Swaps table, then the router's answer.
delete_item(st, c, t) ==
    One([st EXCEPT !.swaps = @ \ get_swap(@, c.req.swap_id)],
        Respond(c, 200, "Swap deleted successfully"))

\* ------------------------------------------------------------- messages
\* dependencies.verify_user_in_swap: 0 when the user is a participant of the
\* swap, else the status code of the HTTPException it raises.
verify_user_in_swap(swapItems, swap_id, user_id) ==
    LET swap == get_swap(swapItems, swap_id)
    IN  IF swap = {} THEN 404
        ELSE IF Item(swap).requesterId # user_id /\ Item(swap).ownerId # user_id THEN 403
        ELSE 0

VerifyDetail(code) ==
    IF code = 404 THEN "Swap not found" ELSE "User is not a participant in this swap"

\* The first statement of every handler of messages_router.
verify_then(st, c, next) ==
    LET code == verify_user_in_swap(st.swaps, c.req.swap_id, c.req.user_id)
    IN  IF code # 0 THEN One(st, Respond(c, code, VerifyDetail(code)))
        ELSE One(st, Goto(c, next))

\* dependencies.get_message_recipient: verifies again, then picks the other participant.
get_message_recipient(st, c, t) ==
    LET code == verify_user_in_swap(st.swaps, c.req.swap_id, c.req.user_id)
        swap == Item(get_swap(st.swaps, c.req.swap_id))
    IN  IF code # 0 THEN One(st, Respond(c, code, VerifyDetail(code)))
        ELSE One(st, Goto([c EXCEPT !.loc.recipient_id =
                               IF c.req.user_id = swap.requesterId THEN swap.ownerId
                               ELSE swap.requesterId],
                          "create_message"))

\* schemas.MessageResponse: the fields without a default. The routes that
\* return a message declare it as their response_model.
MessageResponseRequired ==
    {"message_id", "swap_id", "sender_id", "recipient_id", "content", "timestamp"}

\* The answer of a route that returns the item the repository gave it: the
\* item is validated against MessageResponse after the handler has returned,
\* outside its try block, and a failed validation is answered 500.
RespondMessage(c) ==
    IF \A m \in c.loc.message : MessageResponseRequired \subseteq DOMAIN m
      THEN Respond(c, 200, "message")
      ELSE Respond(c, 500, "Internal Server Error")

\* MessageRepository.create_message: the item put for a user message.
user_message_item(swap_id, message_id, sender_id, recipient_id, content, timestamp) ==
    [swapId |-> swap_id,
     messageId |-> message_id,
     senderId |-> sender_id,
     recipientId |-> recipient_id,
     content |-> content,
     timestamp |-> timestamp,
     isRead |-> FALSE,
     messageType |-> "user",
     eventType |-> None,
     metadata |-> NoMetadata]

create_message(st, c, t) ==
    { [st |-> [st EXCEPT !.messages = @ \cup {m}],
       c |-> RespondMessage([c EXCEPT !.loc.message = {m}])] :
      m \in { user_message_item(c.req.swap_id, id, c.req.user_id, c.loc.recipient_id,
                                c.req.content, t) :
              id \in uuid4(st.messages, c, 1) } }

\* mark_message_as_read: only the recipient may mark the message.
IsRecipient(message, recipient_id) == ~(message.recipientId # recipient_id)

\* mark_message_as_read, first part: the lookup and the three early returns.
mark_message_as_read(st, c, t) ==
    LET message == get_message(st.messages, c.req.swap_id, c.req.message_id)
        NotMarked == "Message not found or user is not the recipient"
    IN  IF message = {}
          THEN One(st, Respond(c, 404, NotMarked))
        ELSE IF ~IsRecipient(Item(message), c.req.user_id)
          THEN One(st, Respond(c, 404, NotMarked))
        ELSE IF Item(message).isRead
          THEN One(st, RespondMessage([c EXCEPT !.loc.message = message]))
        ELSE One(st, Goto(c, "mark_update_item"))

\* An item of the Messages table that holds only its key.
KeyOnlyMessage(swap_id, message_id) ==
    [swapId |-> swap_id, messageId |-> message_id, senderId |-> None,
     recipientId |-> None, content |-> None, timestamp |-> NoneTime,
     isRead |-> FALSE, messageType |-> None, eventType |-> None,
     metadata |-> NoMetadata]

\* Mutant: the update writes the flag and loses the text.
SetIsRead_LosesContent(item) == [item EXCEPT !.isRead = TRUE, !.content = None]

\* "SET isRead = :is_read" with :is_read True.
SetIsRead(item) == [item EXCEPT !.isRead = TRUE]

\* mark_message_as_read, second part: table.update_item, ReturnValues ALL_NEW.
mark_update_item(st, c, t) ==
    LET old == get_message(st.messages, c.req.swap_id, c.req.message_id)
        updated == SetIsRead(IF old = {} THEN KeyOnlyMessage(c.req.swap_id, c.req.message_id)
                             ELSE Item(old))
    IN  One([st EXCEPT !.messages = (@ \ old) \cup {updated}],
            RespondMessage([c EXCEPT !.loc.message = {updated}]))

\* Mutant: the recipient of a message may delete it, whatever its kind.
MayDeleteMessage_Recipient(message, user_id) ==
    ~(message.senderId # user_id) \/ ~(message.recipientId # user_id)

\* Mutant: the sender may delete a message of any kind.
MayDeleteMessage_AnyKind(message, user_id) == ~(message.senderId # user_id)

\* delete_message: only the sender, and never a system message.
MayDeleteMessage(message, user_id) ==
    ~(message.senderId # user_id) /\ ~(message.messageType = "system")

\* delete_message, first part: the lookup and the three early returns.
delete_message(st, c, t) ==
    LET message == get_message(st.messages, c.req.swap_id, c.req.message_id)
        NotDeleted == "Message not found or user is not the sender"
    IN  IF message = {}
          THEN One(st, Respond(c, 404, NotDeleted))
        ELSE IF ~MayDeleteMessage(Item(message), c.req.user_id)
          THEN One(st, Respond(c, 404, NotDeleted))
        ELSE One(st, Goto(c, "delete_message_item"))

\* delete_message, second part: table.delete_item, then 204 No Content.
delete_message_item(st, c, t) ==
    One([st EXCEPT !.messages =
             @ \ get_message(@, c.req.swap_id, c.req.message_id)],
        Respond(c, 204, ""))

\* ------------------------------------------------------------- unread count
\* The orders in which a scan or a query may hand over the items S.
RECURSIVE Orderings(_)
Orderings(S) ==
    IF S = {} THEN {<<>>}
    ELSE UNION { { <<x>> \o rest : rest \in Orderings(S \ {x}) } : x \in S }

\* Mutant: the filter forgets the read flag.
unread_messages_AnyFlag(messageItems, user_id) ==
    {m \in messageItems : m.recipientId = user_id}

\* count_unread_messages, the scan with its FilterExpression.
unread_messages(messageItems, user_id) ==
    {m \in messageItems : m.recipientId = user_id /\ m.isRead = FALSE}

\* count_unread_messages, the loop: swaps_with_unread after the messages of
\* seq, a dict kept as the sequence of its entries in insertion order.
RECURSIVE swaps_with_unread(_)
swaps_with_unread(seq) ==
    IF seq = <<>> THEN <<>>
    ELSE LET before == swaps_with_unread(SubSeq(seq, 1, Len(seq) - 1))
             swap_id == seq[Len(seq)].swapId
         IN  IF \E i \in DOMAIN before : before[i].swap_id = swap_id
               THEN [i \in DOMAIN before |->
                       IF before[i].swap_id = swap_id
                         THEN [before[i] EXCEPT !.count = @ + 1]
                         ELSE before[i]]
               ELSE Append(before, [swap_id |-> swap_id, count |-> 0 + 1])

\* MessageRepository.count_unread_messages on the items as scanned.
count_unread_messages(scanned) ==
    [count |-> Len(scanned), swaps |-> swaps_with_unread(scanned)]

\* GET /messages/unread: no participant check; any scan order.
get_unread_message_count(st, c, t) ==
    { [st |-> st,
       c |-> Respond([c EXCEPT !.loc.unread = count_unread_messages(scanned)],
                     200, "unread")] :
      scanned \in Orderings(unread_messages(st.messages, c.req.user_id)) }

\* ------------------------------------------------------------- message list
\* table.query on the Messages table with ScanIndexForward=True: the items
\* of the partition swapId in ascending order of the sort key. get_item and
\* delete_item address an item by Key={swapId, messageId}, so the sort key is
\* messageId; a uuid is compared here as the number that stands for it.
query_by_swap(messageItems, swap_id) ==
    LET items == {m \in messageItems : m.swapId = swap_id}
        keys == Ascending({m.messageId : m \in items})
    IN  [i \in DOMAIN keys |-> CHOOSE m \in items : m.messageId = keys[i]]

\* MessageRepository.get_messages_for_swap, and the route's answer: the list
\* is validated against List[MessageResponse] as a single message is.
get_messages_for_swap(st, c, t) ==
    LET listed == query_by_swap(st.messages, c.req.swap_id)
        answered == [c EXCEPT !.loc.listed = listed]
    IN  IF \A i \in DOMAIN listed : MessageResponseRequired \subseteq DOMAIN listed[i]
          THEN One(st, Respond(answered, 200, "messages"))
          ELSE One(st, Respond(answered, 500, "Internal Server Error"))

\* ------------------------------------------------------------- location search
\* Coordinates are whole degrees on one meridian (lng 0), where the
\* haversine distance of calculate_distance is 3956 * pi / 180 = 69.04 miles
\* for each degree of latitude.
MilesPerDegree == 69

\* What the geocoding service knows: one address and one zip code.
Gazetteer ==
    [a \in {"1 Main St", "98101, USA"} |->
       IF a = "1 Main St" THEN [lat |-> 1, lng |-> 0] ELSE [lat |-> 2, lng |-> 0]]

\* GeocodingService.geocode_address: the first result of the service, or
\* None when it has no result or the request fails.
geocode_address(address) ==
    {{}} \cup (IF address \in DOMAIN Gazetteer THEN {{Gazetteer[address]}} ELSE {})

\* GeocodingService.get_zip_code_coordinates.
get_zip_code_coordinates(zip_code) == geocode_address(zip_code \o ", USA")

\* GeocodingService.calculate_distance, in whole miles.
calculate_distance(lat1, lng1, lat2, lng2) ==
    MilesPerDegree * (IF lat1 >= lat2 THEN lat1 - lat2 ELSE lat2 - lat1)

\* list.sort(key=distance_miles): ascending and stable.
RECURSIVE sort_by_distance(_)
sort_by_distance(seq) ==
    IF seq = <<>> THEN <<>>
    ELSE LET i == CHOOSE i \in DOMAIN seq :
                     /\ \A j \in DOMAIN seq : seq[i].distance_miles <= seq[j].distance_miles
                     /\ \A j \in 1..(i - 1) : seq[j].distance_miles > seq[i].distance_miles
         IN  <<seq[i]>> \o sort_by_distance(SubSeq(seq, 1, i - 1) \o SubSeq(seq, i + 1, Len(seq)))

\* GeocodingService.filter_listings_by_distance.
filter_listings_by_distance(scanned, center_lat, center_lng, radius_miles) ==
    LET distance(l) == calculate_distance(center_lat, center_lng,
                                          Item(l.location).lat, Item(l.location).lng)
        located == SelectSeq(scanned, LAMBDA l : l.location # {})
        near == SelectSeq(located, LAMBDA l : distance(l) <= radius_miles)
        with_distance ==
            [i \in DOMAIN near |->
               [listingId |-> near[i].listingId, userId |-> near[i].userId,
                status |-> near[i].status, location |-> near[i].location,
                category |-> near[i].category, size |-> near[i].size,
                condition |-> near[i].condition, distance_miles |-> distance(near[i])]]
    IN  sort_by_distance(with_distance)

\* Python's truth value of an optional string.
Truthy(s) == s # None /\ s # ""

\* search_listings_by_location, the choice of the search centre: the
\* possible centres, each a set of at most one point (none: the 400 answers).
search_center(q) ==
    IF q.lat # {} /\ q.lng # {} THEN {{[lat |-> Item(q.lat), lng |-> Item(q.lng)]}}
    ELSE IF Truthy(q.address) THEN geocode_address(q.address)
    ELSE IF Truthy(q.zip_code) THEN get_zip_code_coordinates(q.zip_code)
    ELSE {{}}

\* The detail of the 400 answer for a request without a centre.
NoCenterDetail(q) ==
    IF q.lat # {} /\ q.lng # {} THEN ""
    ELSE IF Truthy(q.address) THEN "Could not geocode address"
    ELSE IF Truthy(q.zip_code) THEN "Could not geocode zip code"
    ELSE "At least one location parameter (zip_code, address, or lat/lng) is required"

\* search_listings_by_location after the centre: the scan of the active
\* listings in any order, the distance filter and the three filters.
search_result(q, center, scanned) ==
    LET nearby == filter_listings_by_distance(scanned, center.lat, center.lng, q.radius)
        by_category == IF Truthy(q.category)
                         THEN SelectSeq(nearby, LAMBDA l : l.category = q.category) ELSE nearby
        by_size == IF Truthy(q.size)
                     THEN SelectSeq(by_category, LAMBDA l : l.size = q.size) ELSE by_category
        filtered == IF Truthy(q.condition)
                      THEN SelectSeq(by_size, LAMBDA l : l.condition = q.condition) ELSE by_size
    IN  [listings |-> filtered, count |-> Len(filtered), search_center |-> center,
         search_criteria |-> [zip_code |-> q.zip_code, address |-> q.address,
                              radius |-> q.radius, category |-> q.category,
                              size |-> q.size, condition |-> q.condition]]

\* GET /listings/search/by-location.
search_listings_by_location(st, c, t) ==
    LET q == Item(c.req.query)
        active == {l \in listings : l.status = "active"}
    IN  UNION { IF center = {}
                  THEN One(st, Respond(c, 400, NoCenterDetail(q)))
                  ELSE { [st |-> st,
                          c |-> Respond([c EXCEPT !.loc.search =
                                           {search_result(q, Item(center), scanned)}],
                                        200, "search")] :
                         scanned \in Orderings(active) }
              : center \in search_center(q) }

\* ------------------------------------------------------------- listing creation
\* settings.allowed_image_types and settings.max_image_size_mb; the size of
\* a file is counted in whole megabytes.
allowed_image_types == {"image/jpeg", "image/png", "image/webp"}
max_image_size_mb == 5

\* The keys of the images bucket; a key stands for "images/<uuid4>.<ext>".
ImageKeys == 1..MaxKeys

\* uuid4 for an image: an identifier no stored object has.
FreeImageKeys(objects) == ImageKeys \ objects

\* create_listing, the location: the form field is missing (""), not JSON
\* ("{"), a dict with an address, a dict with whole-number lat and lng, or an
\* empty dict. The outcomes are the location kept for the listing (its point,
\* when it has one, and whether its coordinates are Python floats, as the
\* geocoded ones are), or none when the JSON does not parse.
location_data_of(form) ==
    LET geocoded(found) ==
            { IF g = {} THEN [point |-> {}, floats |-> FALSE]
                        ELSE [point |-> g, floats |-> TRUE] : g \in found }
    IN  CASE form.location = "{" -> {}
          [] form.location = "address" -> geocoded(geocode_address("1 Main St"))
          [] form.location = "latlng" -> {[point |-> {[lat |-> 0, lng |-> 0]}, floats |-> FALSE]}
          [] OTHER -> IF Truthy(form.zipCode)
                        THEN geocoded(get_zip_code_coordinates(form.zipCode))
                        ELSE {[point |-> {}, floats |-> FALSE]}

\* POST /listings/ up to the first upload: the user, the location, the tags.
create_listing(st, c, t) ==
    LET form == Item(c.req.form)
        user == get_user_item(st.users, form.userId)
        locations == location_data_of(form)
    IN  IF user = {} THEN One(st, Respond(c, 404, "User not found"))
        ELSE IF locations = {} THEN One(st, Respond(c, 400, "Invalid location JSON format"))
        ELSE IF form.tags = "{" THEN One(st, Respond(c, 400, "Invalid tags JSON format"))
        ELSE { [st |-> st,
                c |-> Goto([c EXCEPT !.loc.location_data = l, !.loc.image_index = 1],
                           IF form.images = <<>> THEN "create_listing_item"
                                                 ELSE "upload_image")] :
               l \in locations }

\* Mutant: the failure of an image is skipped over.
upload_image_SkipsFailure(st, c, t) ==
    LET form == Item(c.req.form)
        i == c.loc.image_index
        image_file == form.images[i]
        after(d) == Goto([d EXCEPT !.loc.image_index = i + 1],
                         IF i = Len(form.images) THEN "create_listing_item"
                                                 ELSE "upload_image")
    IN  IF \/ image_file.content_type \notin allowed_image_types
           \/ image_file.size > max_image_size_mb
          THEN One(st, after(c))
          ELSE { [st |-> [st EXCEPT !.bucket = @ \cup {key}],
                  c |-> after([c EXCEPT !.loc.uploaded_images = Append(@, key)])] :
                 key \in {k \in FreeImageKeys(st.bucket) :
                            \A j \in FreeImageKeys(st.bucket) : k <= j} }
               \cup One(st, after(c))

\* create_listing, one round of the loop over images: the checks of the
\* type and of the size, then s3_client.upload_file, which stores the object
\* or fails. Any failure is caught by the loop's except clause.
upload_image(st, c, t) ==
    LET form == Item(c.req.form)
        i == c.loc.image_index
        image_file == form.images[i]
        failed == Goto([c EXCEPT !.loc.image_index = 1, !.loc.failed_image = i], "cleanup")
        after(d) == Goto([d EXCEPT !.loc.image_index = i + 1],
                         IF i = Len(form.images) THEN "create_listing_item"
                                                 ELSE "upload_image")
    IN  IF \/ image_file.content_type \notin allowed_image_types
           \/ image_file.size > max_image_size_mb
          THEN One(st, failed)
          ELSE { [st |-> [st EXCEPT !.bucket = @ \cup {key}],
                  c |-> after([c EXCEPT !.loc.uploaded_images = Append(@, key)])] :
                 key \in {k \in FreeImageKeys(st.bucket) :
                            \A j \in FreeImageKeys(st.bucket) : k <= j} }
               \cup One(st, failed)

\* create_listing, the except clause of the loop: ImageService.delete_image
\* for each uploaded image in turn, whether the object goes or not, then the
\* 500 answer. failed_image records the image that failed, delete_attempts
\* the keys delete_image was called with.
cleanup(st, c, t) ==
    LET k == c.loc.image_index
        uploaded_images == c.loc.uploaded_images
    IN  IF k > Len(uploaded_images)
          THEN One(st, Respond(c, 500, "Failed to upload image"))
          ELSE LET d == [c EXCEPT !.loc.image_index = k + 1,
                                  !.loc.delete_attempts = Append(@, uploaded_images[k])]
               IN  {[st |-> [st EXCEPT !.bucket = @ \ {uploaded_images[k]}], c |-> d],
                    [st |-> st, c |-> d]}

\* ListingRepository.create_listing, the item.
listing_item(listing_id, form, location, images) ==
    [listingId |-> listing_id, userId |-> form.userId, status |-> "active",
     location |-> location, category |-> "tops", size |-> "M", condition |-> "new",
     zipCode |-> form.zipCode, images |-> images]

\* ListingRepository.create_listing: put_item refuses an item that holds a
\* Python float (the router does not convert the geocoded coordinates), and
\* the route then answers 500.
create_listing_item(st, c, t) ==
    LET form == Item(c.req.form)
        free == {l \in ListingIds : \A x \in st.listings : x.listingId # l}
        listing_id == CHOOSE l \in free : TRUE
        new_listing == listing_item(listing_id, form, c.loc.location_data.point,
                                    c.loc.uploaded_images)
    IN  IF c.loc.location_data.floats
          THEN One(st, Respond(c, 500, "Error creating listing"))
          ELSE One([st EXCEPT !.listings = @ \cup {new_listing}],
                   Respond([c EXCEPT !.loc.new_listing = {new_listing}],
                           200, "Listing created successfully"))

\* ------------------------------------------------------------- user creation
user_required_fields == <<"userId", "email", "firstName", "lastName">>

\* POST /users/ up to the write: the required fields, then the check that
\* no user has the identifier.
create_user(st, c, t) ==
    LET user_data == Item(c.req.user_data)
        missing == {i \in DOMAIN user_required_fields :
                      user_data[user_required_fields[i]] = Absent}
        existing_user == get_user_item(st.users, user_data.userId)
    IN  IF missing # {} THEN One(st, Respond(c, 400, "Missing required field"))
        ELSE IF existing_user # {} THEN One(st, Respond(c, 409, "User already exists"))
        ELSE One(st, Goto(c, "put_user"))

\* UserRepository.create_user: put_item without a condition stores the item
\* in the place of any item with the same key. replaced_user records the item
\* the write replaced.
put_user(st, c, t) ==
    LET user_data == Item(c.req.user_data)
        new_user == user_item(user_data, t)
        old == get_user_item(st.users, user_data.userId)
    IN  One([st EXCEPT !.users = (@ \ old) \cup {new_user}],
            Respond([c EXCEPT !.loc.new_user = {new_user}, !.loc.replaced_user = old],
                    200, "User profile created successfully"))

\* ------------------------------------------------------------- handlers
SwapOps == {"update_swap", "accept_swap", "reject_swap", "complete_swap"}

\* The entry of each handler.
start(st, c, t) ==
    CASE c.op = "create_swap" -> create_swap(st, c, t)
      [] c.op = "update_swap" -> update_swap(st, c, t)
      [] c.op \in {"accept_swap", "reject_swap", "complete_swap"} -> convenience_swap(st, c, t)
      [] c.op = "delete_swap" -> delete_swap(st, c, t)
      [] c.op = "send_message" -> verify_then(st, c, "get_message_recipient")
      [] c.op = "mark_message_as_read" -> verify_then(st, c, "mark_message_as_read")
      [] c.op = "delete_message" -> verify_then(st, c, "delete_message")
      [] c.op = "get_unread_message_count" -> get_unread_message_count(st, c, t)
      [] c.op = "get_messages_for_swap" -> verify_then(st, c, "get_messages_for_swap")
      [] c.op = "search_listings_by_location" -> search_listings_by_location(st, c, t)
      [] c.op = "create_listing" -> create_listing(st, c, t)
      [] c.op = "create_user" -> create_user(st, c, t)

\* One step of the handler in context c on the tables st at time t: the set
\* of its possible outcomes (several when a uuid is drawn).
Steps(st, c, t) ==
    CASE c.pc = "start" -> start(st, c, t)
      [] c.pc = "update_swap_status" -> update_swap_status(st, c, t)
      [] c.pc = "update_item" -> update_item(st, c, t)
      [] c.pc = "create_system_message" -> create_system_message(st, c, t)
      [] c.pc = "put_system_message" -> put_system_message(st, c, t)
      [] c.pc = "delete_item" -> delete_item(st, c, t)
      [] c.pc = "get_message_recipient" -> get_message_recipient(st, c, t)
      [] c.pc = "create_message" -> create_message(st, c, t)
      [] c.pc = "mark_message_as_read" -> mark_message_as_read(st, c, t)
      [] c.pc = "mark_update_item" -> mark_update_item(st, c, t)
      [] c.pc = "delete_message" -> delete_message(st, c, t)
      [] c.pc = "delete_message_item" -> delete_message_item(st, c, t)
      [] c.pc = "get_messages_for_swap" -> get_messages_for_swap(st, c, t)
      [] c.pc = "upload_image" -> upload_image(st, c, t)
      [] c.pc = "cleanup" -> cleanup(st, c, t)
      [] c.pc = "create_listing_item" -> create_listing_item(st, c, t)
      [] c.pc = "put_user" -> put_user(st, c, t)
      [] OTHER -> {}

\* A handler run from context c until it answers.
RECURSIVE Run(_, _, _)
Run(st, c, t) ==
    IF c.pc = "done" THEN One(st, c)
    ELSE UNION { Run(n.st, n.c, t) : n \in Steps(st, c, t) }

Tables ==
    [swaps |-> swaps, messages |-> messages, nextSwapId |-> nextSwapId,
     users |-> users, listings |-> listings, bucket |-> bucket]

StartCtx(op, req, uuids) ==
    [IdleCtx EXCEPT !.op = op, !.pc = "start", !.req = req, !.uuids = uuids,
                    !.pre = [swaps |-> swaps, messages |-> messages, users |-> users,
                             listings |-> listings, bucket |-> bucket]]

\* ------------------------------------------------------------- requests
\* Callers: the registered users, a user who takes part in no swap, and a
\* payload without userId.
Callers == UserIds \cup {"u3"}

\* Creation payloads: the valid one (l1 offered by its owner for l2), the ones that
\* differ from it in the two users, in one listing, or lack one field.
ValidCreate ==
    [NoReq EXCEPT !.requesterId = Item(get_listing("l1")).userId,
                  !.ownerId = Item(get_listing("l2")).userId,
                  !.requesterListingId = "l1", !.ownerListingId = "l2"]

CreateRequests ==
    { [ValidCreate EXCEPT !.requesterId = r, !.ownerId = o] : r \in Callers, o \in Callers }
    \cup { [ValidCreate EXCEPT !.requesterListingId = l] : l \in ListingIds }
    \cup { [ValidCreate EXCEPT !.ownerListingId = l] : l \in ListingIds }
    \cup { [ValidCreate EXCEPT ![f] = Absent] : f \in required_fields }

UpdateRequests ==
    { [NoReq EXCEPT !.swap_id = s, !.user_id = u, !.status = x] :
      s \in SwapIds, u \in Callers, x \in StatusInputs }
    \cup { [NoReq EXCEPT !.swap_id = s] : s \in SwapIds }

ConvenienceRequests ==
    { [NoReq EXCEPT !.swap_id = s, !.user_id = u] :
      s \in SwapIds, u \in Callers \cup {Absent} }

DeleteRequests ==
    { [NoReq EXCEPT !.swap_id = s, !.user_id = u] :
      s \in SwapIds, u \in Callers \cup {Absent} }

SendRequests ==
    { [NoReq EXCEPT !.swap_id = s, !.user_id = u, !.content = x] :
      s \in SwapIds, u \in Callers, x \in Texts }

MessageRequests ==
    { [NoReq EXCEPT !.swap_id = s, !.user_id = u, !.message_id = i] :
      s \in SwapIds, u \in Callers, i \in MessageIds }

\* ------------------------------------------------------------- one worker
\* The uuids a request draws, when identifiers are handed out in ascending
\* order (no handler reads the order of identifiers it has drawn).
LowestUuids(messageItems) == Ascending(FreeMessageIds(messageItems))

\* A request handled from its arrival to its answer.
Handle(op, req) ==
    /\ \A p \in DOMAIN procs : procs[p].pc = "idle"
    /\ \E r \in Run(Tables, StartCtx(op, req, LowestUuids(messages)), now) :
         /\ swaps' = r.st.swaps
         /\ messages' = r.st.messages
         /\ nextSwapId' = r.st.nextSwapId
         /\ users' = r.st.users
         /\ listings' = r.st.listings
         /\ bucket' = r.st.bucket
         /\ procs' = [procs EXCEPT ![1] = r.c]
    /\ UNCHANGED now

CreateSwap == nextSwapId <= MaxSwaps /\ \E req \in CreateRequests : Handle("create_swap", req)

UpdateSwap == \E req \in UpdateRequests : Handle("update_swap", req)

AcceptSwap == \E req \in ConvenienceRequests : Handle("accept_swap", req)

RejectSwap == \E req \in ConvenienceRequests : Handle("reject_swap", req)

CompleteSwap == \E req \in ConvenienceRequests : Handle("complete_swap", req)

DeleteSwap == \E req \in DeleteRequests : Handle("delete_swap", req)

SendMessage == \E req \in SendRequests : Handle("send_message", req)

MarkMessageAsRead == \E req \in MessageRequests : Handle("mark_message_as_read", req)

DeleteMessage == \E req \in MessageRequests : Handle("delete_message", req)

\* The answer leaves the worker.
Return ==
    /\ procs[1].pc = "done"
    /\ procs' = [procs EXCEPT ![1] = IdleCtx]
    /\ UNCHANGED <<users, listings, swaps, messages, nextSwapId, now, bucket>>

\* Time passes between requests.
Tick ==
    /\ \A p \in DOMAIN procs : procs[p].pc = "idle"
    /\ now < MaxClock
    /\ now' = now + 1
    /\ UNCHANGED <<users, listings, swaps, messages, nextSwapId, procs, bucket>>

\* Two registered users with one active listing each, an inactive listing,
\* and no swap; "u3" is not registered and "l4" is no listing.
Init ==
    /\ users = {StoredUser("u1"), StoredUser("u2")}
    /\ listings = {[listingId |-> "l1", userId |-> "u1", status |-> "active"],
                   [listingId |-> "l2", userId |-> "u2", status |-> "active"],
                   [listingId |-> "l3", userId |-> "u1", status |-> "inactive"]}
    /\ swaps = {}
    /\ messages = {}
    /\ nextSwapId = 1
    /\ now = 1
    /\ procs = [p \in {1} |-> IdleCtx]
    /\ bucket = {}

Next ==
    \/ CreateSwap
    \/ UpdateSwap
    \/ AcceptSwap
    \/ RejectSwap
    \/ CompleteSwap
    \/ DeleteSwap
    \/ Return

Spec == Init /\ [][Next]_vars

\* ------------------------------------------------------------- message handlers
\* The number of swaps whose messages are followed.
MaxConversations == 1

\* The creation that succeeds.
CreateValidSwap == nextSwapId <= MaxConversations /\ Handle("create_swap", ValidCreate)

\* The second user registered under the identifier "u2", or under the
\* identifier that message_repo reserves for the sender of system messages
\* (users_router.create_user takes the userId from the request).
InitMessages ==
    /\ \E o \in {"u2", SYSTEM_SENDER_ID} :
         /\ users = {StoredUser("u1"), StoredUser(o)}
         /\ listings = {[listingId |-> "l1", userId |-> "u1", status |-> "active"],
                        [listingId |-> "l2", userId |-> o, status |-> "active"],
                        [listingId |-> "l3", userId |-> "u1", status |-> "inactive"]}
    /\ swaps = {}
    /\ messages = {}
    /\ nextSwapId = 1
    /\ now = 1
    /\ procs = [p \in {1} |-> IdleCtx]
    /\ bucket = {}

NextMessages ==
    \/ CreateValidSwap
    \/ AcceptSwap
    \/ DeleteSwap
    \/ SendMessage
    \/ MarkMessageAsRead
    \/ DeleteMessage
    \/ Return

\* One worker serving the message handlers next to the swap handlers that
\* store system messages.
SpecMessages == InitMessages /\ [][NextMessages]_vars

\* ------------------------------------------------------------- inboxes
\* A swap between the owners of l1 and l2, as long as identifiers last.
OpenSwap == nextSwapId <= MaxSwaps /\ Handle("create_swap", ValidCreate)

\* The owner of the requested listing accepts.
AcceptByOwner ==
    \E s \in SwapIds :
       Handle("accept_swap", [NoReq EXCEPT !.swap_id = s, !.user_id = ValidCreate.ownerId])

\* A participant writes to the other.
SendByParticipant ==
    \E s \in SwapIds, u \in UserIds :
       Handle("send_message", [NoReq EXCEPT !.swap_id = s, !.user_id = u, !.content = "hi"])

\* A registered user marks a message.
MarkByUser ==
    \E s \in SwapIds, u \in UserIds, i \in MessageIds :
       Handle("mark_message_as_read",
              [NoReq EXCEPT !.swap_id = s, !.user_id = u, !.message_id = i])

\* GET /messages/unread for a registered user or a stranger.
GetUnreadMessageCount ==
    \E u \in Callers :
       Handle("get_unread_message_count", [NoReq EXCEPT !.user_id = u])

NextInbox ==
    \/ OpenSwap
    \/ AcceptByOwner
    \/ SendByParticipant
    \/ MarkByUser
    \/ GetUnreadMessageCount
    \/ Return

\* One worker; messages of several swaps reach the same inbox.
SpecInbox == Init /\ [][NextInbox]_vars

\* ------------------------------------------------------------- conversation
\* A request handled from its arrival to its answer, drawing the given uuids.
HandleDrawing(op, req, uuids) ==
    /\ \A p \in DOMAIN procs : procs[p].pc = "idle"
    /\ \E r \in Run(Tables, StartCtx(op, req, uuids), now) :
         /\ swaps' = r.st.swaps
         /\ messages' = r.st.messages
         /\ nextSwapId' = r.st.nextSwapId
         /\ users' = r.st.users
         /\ listings' = r.st.listings
         /\ bucket' = r.st.bucket
         /\ procs' = [procs EXCEPT ![1] = r.c]
    /\ UNCHANGED now

\* A participant writes to the other; uuid4 gives any identifier not in use.
SendDrawing ==
    \E s \in SwapIds, u \in UserIds, id \in FreeMessageIds(messages) :
       HandleDrawing("send_message",
                     [NoReq EXCEPT !.swap_id = s, !.user_id = u, !.content = "hi"],
                     <<id>>)

\* GET /messages/swap/{swap_id} by a registered user or a stranger.
GetMessagesForSwap ==
    \E s \in SwapIds, u \in Callers :
       Handle("get_messages_for_swap", [NoReq EXCEPT !.swap_id = s, !.user_id = u])

NextConversation ==
    \/ CreateValidSwap
    \/ SendDrawing
    \/ GetMessagesForSwap
    \/ Tick
    \/ Return

\* One worker, one conversation, the clock advancing between requests.
SpecConversation == Init /\ [][NextConversation]_vars

\* ------------------------------------------------------------- optional fields
\* A swap requested with a text and meetup details.
CreateWithText ==
    /\ nextSwapId <= MaxConversations
    /\ \E x \in Texts, d \in Details :
         Handle("create_swap", [ValidCreate EXCEPT !.message = x, !.meetupDetails = d])

\* What the body of a transition request may carry besides userId.
OptionalFields ==
    { [message |-> x, meetupDetails |-> d] :
      x \in {Absent, "ok"}, d \in {Absent, "park"} }

TransitionRequests ==
    { [NoReq EXCEPT !.swap_id = s, !.user_id = u,
                    !.message = o.message, !.meetupDetails = o.meetupDetails] :
      s \in 1..MaxConversations, u \in UserIds, o \in OptionalFields }

AcceptWith == \E req \in TransitionRequests : Handle("accept_swap", req)

RejectWith == \E req \in TransitionRequests : Handle("reject_swap", req)

CompleteWith == \E req \in TransitionRequests : Handle("complete_swap", req)

UpdateWith ==
    \E req \in TransitionRequests, x \in {"pending", "accepted"} :
       Handle("update_swap", [req EXCEPT !.status = x])

NextOptional ==
    \/ CreateWithText
    \/ AcceptWith
    \/ RejectWith
    \/ CompleteWith
    \/ UpdateWith
    \/ Return

\* One worker; swaps carry a text and meetup details, transitions may too.
SpecOptional == Init /\ [][NextOptional]_vars

\* ------------------------------------------------------------- several workers
MaxWorkers == 2

Workers == 1..MaxWorkers

\* The uuids worker p draws for its next request: the lowest identifiers that
\* no stored message and no request in progress holds.
DrawUuids(p) ==
    LET held == UNION { {procs[q].uuids[i] : i \in DOMAIN procs[q].uuids} :
                        q \in DOMAIN procs \ {p} }
        free == Ascending(FreeMessageIds(messages) \ held)
    IN  IF Len(free) <= 2 THEN free ELSE SubSeq(free, 1, 2)

\* Worker p takes a request.
Begin(p, op, req) ==
    /\ procs[p].pc = "idle"
    /\ procs' = [procs EXCEPT ![p] = StartCtx(op, req, DrawUuids(p))]
    /\ UNCHANGED <<users, listings, swaps, messages, nextSwapId, now, bucket>>

\* The requests that race: the participants asking for a transition or for
\* the deletion of a swap that was created.
StepwiseUpdateRequests ==
    { [NoReq EXCEPT !.swap_id = s, !.user_id = u, !.status = x] :
      s \in 1..(nextSwapId - 1), u \in UserIds, x \in {"accepted", "pending"} }

StepwiseDeleteRequests ==
    { [NoReq EXCEPT !.swap_id = s, !.user_id = u] :
      s \in 1..(nextSwapId - 1), u \in UserIds }

BeginUpdateSwap(p) == \E req \in StepwiseUpdateRequests : Begin(p, "update_swap", req)

BeginDeleteSwap(p) == \E req \in StepwiseDeleteRequests : Begin(p, "delete_swap", req)

\* Worker p runs its handler up to and including its next call to a table.
Step(p) ==
    /\ procs[p].pc \notin {"idle", "done"}
    /\ \E n \in Steps(Tables, procs[p], now) :
         /\ swaps' = n.st.swaps
         /\ messages' = n.st.messages
         /\ nextSwapId' = n.st.nextSwapId
         /\ users' = n.st.users
         /\ listings' = n.st.listings
         /\ bucket' = n.st.bucket
         /\ procs' = [procs EXCEPT ![p] = n.c]
    /\ UNCHANGED now

\* Worker p sends its answer.
Finish(p) ==
    /\ procs[p].pc = "done"
    /\ procs' = [procs EXCEPT ![p] = IdleCtx]
    /\ UNCHANGED <<users, listings, swaps, messages, nextSwapId, now, bucket>>

\* The tables after u1 has asked u2 for a swap: the races this specification
\* is about are between transitions and deletions of a swap that exists.
InitWorkers ==
    /\ users = {StoredUser("u1"), StoredUser("u2")}
    /\ listings = {[listingId |-> "l1", userId |-> "u1", status |-> "active"],
                   [listingId |-> "l2", userId |-> "u2", status |-> "active"],
                   [listingId |-> "l3", userId |-> "u1", status |-> "inactive"]}
    /\ swaps = {create_swap_item(1, ValidCreate, ValidCreate.requesterId, 1)}
    /\ messages = {}
    /\ nextSwapId = 2
    /\ now = 1
    /\ procs = [p \in Workers |-> IdleCtx]
    /\ bucket = {}

NextWorkers ==
    \E p \in Workers :
       \/ BeginUpdateSwap(p)
       \/ BeginDeleteSwap(p)
       \/ Step(p)
       \/ Finish(p)

\* Several workers serve requests against the same tables, a step at a time.
SpecWorkers == InitWorkers /\ [][NextWorkers]_vars

\* ------------------------------------------------------------- location search
\* Listings along the meridian, one without a location and one inactive; a
\* missing location, like a missing lat or lng parameter, is the empty set.
SearchListing(id, location, category, status) ==
    [listingId |-> id, userId |-> "u1", status |-> status, location |-> location,
     category |-> category, size |-> "M", condition |-> "new"]

InitSearch ==
    /\ users = {StoredUser("u1"), StoredUser("u2")}
    /\ listings = {SearchListing("l1", {[lat |-> 0, lng |-> 0]}, "tops", "active"),
                   SearchListing("l2", {[lat |-> 1, lng |-> 0]}, "shoes", "active"),
                   SearchListing("l3", {[lat |-> 2, lng |-> 0]}, "tops", "active"),
                   SearchListing("l4", {}, "tops", "active"),
                   SearchListing("l5", {[lat |-> 1, lng |-> 0]}, "tops", "inactive")}
    /\ swaps = {}
    /\ messages = {}
    /\ nextSwapId = 1
    /\ now = 1
    /\ procs = [p \in {1} |-> IdleCtx]
    /\ bucket = {}

\* The query parameters: each location parameter missing, empty, known to
\* the geocoding service or unknown to it.
SearchQueries ==
    [lat : {{}, {0}}, lng : {{}, {0}},
     address : {None, "", "1 Main St", "nowhere"},
     zip_code : {None, "", "98101", "00000"},
     radius : {25, 100},
     category : {None, "tops"}, size : {None, "M"}, condition : {None, "worn"}]

SearchListingsByLocation ==
    \E q \in SearchQueries :
       Handle("search_listings_by_location", [NoReq EXCEPT !.query = {q}])

NextSearch ==
    \/ SearchListingsByLocation
    \/ Return

SpecSearch == InitSearch /\ [][NextSearch]_vars

\* ------------------------------------------------------------- listing creation
\* Nothing is stored but the two users.
InitListing ==
    /\ users = {StoredUser("u1"), StoredUser("u2")}
    /\ listings = {}
    /\ swaps = {}
    /\ messages = {}
    /\ nextSwapId = 1
    /\ now = 1
    /\ procs = [p \in {1} |-> IdleCtx]
    /\ bucket = {}

\* An image of an allowed type and size, one of another type, one too large.
ImageFiles ==
    {[content_type |-> "image/png", size |-> 1],
     [content_type |-> "text/plain", size |-> 1],
     [content_type |-> "image/jpeg", size |-> 6]}

ImageLists == UNION { [1..n -> ImageFiles] : n \in 0..MaxImages }

\* The forms: a plain one with any list of images, and the ones with another
\* user, location or tags with at most one image.
ListingForms ==
    { [userId |-> "u1", zipCode |-> "00000", location |-> "", tags |-> "", images |-> i] :
      i \in ImageLists }
    \cup
    { [userId |-> u, zipCode |-> z, location |-> l, tags |-> g, images |-> i] :
      u \in {"u1", "u3"}, z \in {"98101", "00000"},
      l \in {"", "{", "address", "latlng", "{}"}, g \in {"", "{", "[]"},
      i \in {<<>>, <<[content_type |-> "image/png", size |-> 1]>>} }

CreateListing ==
    /\ Cardinality(listings) < MaxListings
    /\ Cardinality(bucket) + MaxImages <= MaxKeys
    /\ \E f \in ListingForms : Handle("create_listing", [NoReq EXCEPT !.form = {f}])

NextListing ==
    \/ CreateListing
    \/ Return

SpecListing == InitListing /\ [][NextListing]_vars

\* ------------------------------------------------------------- signup
\* One user is stored; several workers serve the signup calls.
InitSignup ==
    /\ users = {StoredUser("u1")}
    /\ listings = {}
    /\ swaps = {}
    /\ messages = {}
    /\ nextSwapId = 1
    /\ now = 1
    /\ procs = [p \in Workers |-> IdleCtx]
    /\ bucket = {}

\* The payloads: a stored and two new identifiers, under two e-mail
\* addresses, and a payload without e-mail address.
UserPayloads ==
    { Signup(u, e) : u \in {"u1", "u2", "u3"}, e \in {"a@x", "b@x", Absent} }

BeginCreateUser(p) ==
    \E d \in UserPayloads : Begin(p, "create_user", [NoReq EXCEPT !.user_data = {d}])

NextSignup ==
    \/ \E p \in Workers :
          \/ BeginCreateUser(p)
          \/ Step(p)
          \/ Finish(p)
    \/ Tick

SpecSignup == InitSignup /\ [][NextSignup]_vars

\* ------------------------------------------------------------- timestamps
\* A participant completes the swap.
CompleteByParticipant ==
    \E u \in UserIds :
       Handle("complete_swap", [NoReq EXCEPT !.swap_id = 1, !.user_id = u])

\* A participant's generic update: back to pending, to completed, or with a
\* text and no status.
UpdateByParticipant ==
    \E u \in UserIds, x \in {"pending", "completed", Absent} :
       Handle("update_swap",
              [NoReq EXCEPT !.swap_id = 1, !.user_id = u, !.status = x,
                            !.message = IF x = Absent THEN "ok" ELSE Absent])

NextClock ==
    \/ CreateValidSwap
    \/ CompleteByParticipant
    \/ UpdateByParticipant
    \/ Tick
    \/ Return

\* One worker, one swap, the clock advancing between requests.
SpecClock == Init /\ [][NextClock]_vars

\* ------------------------------------------------------------- several readers
\* The tables after u1 has asked u2 for a swap and written to them.
InitReaders ==
    /\ users = {StoredUser("u1"), StoredUser("u2")}
    /\ listings = {[listingId |-> "l1", userId |-> "u1", status |-> "active"],
                   [listingId |-> "l2", userId |-> "u2", status |-> "active"],
                   [listingId |-> "l3", userId |-> "u1", status |-> "inactive"]}
    /\ swaps = {create_swap_item(1, ValidCreate, ValidCreate.requesterId, 1)}
    /\ messages = {user_message_item(1, 1, "u1", "u2", "hi", 1)}
    /\ nextSwapId = 2
    /\ now = 1
    /\ procs = [p \in Workers |-> IdleCtx]
    /\ bucket = {}

\* The requests that race: the participants marking and deleting messages
\* of the swap.
StepwiseMessageRequests ==
    { [NoReq EXCEPT !.swap_id = 1, !.user_id = u, !.message_id = i] :
      u \in UserIds, i \in 1..2 }

BeginMarkMessageAsRead(p) ==
    \E req \in StepwiseMessageRequests : Begin(p, "mark_message_as_read", req)

BeginDeleteMessage(p) ==
    \E req \in StepwiseMessageRequests : Begin(p, "delete_message", req)

NextReaders ==
    \E p \in Workers :
       \/ BeginMarkMessageAsRead(p)
       \/ BeginDeleteMessage(p)
       \/ Step(p)
       \/ Finish(p)

\* Several workers serve message requests, a step at a time.
SpecReaders == InitReaders /\ [][NextReaders]_vars

\* ------------------------------------------------------------- observation
\* The worker of Spec, and what its request saw and did.
W == procs[1]

Done(op) == W.pc = "done" /\ W.op = op

DoneIn(ops) == W.pc = "done" /\ W.op \in ops

\* The swap the request names, as stored before the request.
PreSwap == get_swap(W.pre.swaps, W.req.swap_id)

\* The message the request names, as stored before the request.
PreMessage == get_message(W.pre.messages, W.req.swap_id, W.req.message_id)

\* The messages the request stored.
NewMessages == messages \ W.pre.messages

\* The same request, not yet handled.
Restart(c) ==
    [IdleCtx EXCEPT !.op = c.op, !.pc = "start", !.req = c.req, !.uuids = c.uuids,
                    !.pre = c.pre]

\* The status codes the request of context c gets on the given tables.
CodesOn(st, c) == {r.c.status_code : r \in Run(st, Restart(c), now)}

MessagesTo(messageItems, swap_id, user_id) ==
    {m \in messageItems : m.swapId = swap_id /\ m.recipientId = user_id}

\* ------------------------------------------------------------- C1
\* C1: a transition request (update, accept, reject, complete) by a user who
\* is neither the requester nor the owner of an existing swap gets the status
\* code the same request gets when the swap is not stored, that code is an
\* error, and the Swaps and Messages tables are as before the request.
C1_StrangerAsNotFound ==
    (/\ DoneIn(SwapOps)
     /\ PreSwap # {}
     /\ W.req.user_id # Absent
     /\ W.req.user_id # Item(PreSwap).requesterId
     /\ W.req.user_id # Item(PreSwap).ownerId)
    => /\ W.status_code >= 400
       /\ CodesOn([swaps |-> W.pre.swaps \ PreSwap, messages |-> W.pre.messages,
                   nextSwapId |-> nextSwapId], W) = {W.status_code}
       /\ swaps = W.pre.swaps
       /\ messages = W.pre.messages

C1_Witness ==
    /\ DoneIn(SwapOps)
    /\ PreSwap # {}
    /\ W.req.user_id = "u3"
    /\ W.req.status \in {Absent, "accepted"}
    /\ W.status_code = 404

\* ------------------------------------------------------------- C2
NotifiedStatuses == {"accepted", "rejected", "completed", "cancelled"}

EventOfStatus ==
    [x \in NotifiedStatuses |->
       CASE x = "accepted" -> "swap_accepted"
         [] x = "rejected" -> "swap_rejected"
         [] x = "completed" -> "swap_completed"
         [] x = "cancelled" -> "swap_cancelled"]

\* The status a transition request asks for (Absent: none).
TargetStatus ==
    CASE W.op = "update_swap" -> W.req.status
      [] W.op = "accept_swap" -> "accepted"
      [] W.op = "reject_swap" -> "rejected"
      [] W.op = "complete_swap" -> "completed"
      [] OTHER -> Absent

ByParticipant ==
    /\ PreSwap # {}
    /\ W.req.user_id \in {Item(PreSwap).requesterId, Item(PreSwap).ownerId}

\* C2: a participant's transition to accepted, rejected, completed or
\* cancelled of a swap whose status was another one succeeds and stores
\* exactly two new messages, both for that swap, one to the requester and one
\* to the owner, sent by SYSTEM, of kind system, unread, with the event of the
\* target status; no stored message is lost.
C2_TwoSystemMessages ==
    (/\ DoneIn(SwapOps)
     /\ ByParticipant
     /\ TargetStatus \in NotifiedStatuses
     /\ Item(PreSwap).status # TargetStatus)
    => /\ W.status_code = 200
       /\ W.pre.messages \subseteq messages
       /\ Cardinality(NewMessages) = 2
       /\ {m.recipientId : m \in NewMessages} =
            {Item(PreSwap).requesterId, Item(PreSwap).ownerId}
       /\ \A m \in NewMessages :
            /\ m.swapId = W.req.swap_id
            /\ m.senderId = "SYSTEM"
            /\ m.messageType = "system"
            /\ m.isRead = FALSE
            /\ m.eventType = EventOfStatus[TargetStatus]

C2_Witness ==
    /\ Done("update_swap")
    /\ ByParticipant
    /\ TargetStatus = "cancelled"
    /\ Item(PreSwap).status = "accepted"
    /\ Cardinality(NewMessages) = 2

\* ------------------------------------------------------------- C3
\* C3: a transition request that asks for the status the swap has, or for no
\* status, stores no message: no new system message, and for the requester
\* and the owner the messages addressed to them are the ones stored before.
C3_NoMessageWithoutChange ==
    (/\ DoneIn(SwapOps)
     /\ PreSwap # {}
     /\ TargetStatus \in {Absent, Item(PreSwap).status})
    => /\ \A m \in NewMessages : m.messageType # "system"
       /\ \A u \in {Item(PreSwap).requesterId, Item(PreSwap).ownerId} :
            MessagesTo(messages, W.req.swap_id, u) =
              MessagesTo(W.pre.messages, W.req.swap_id, u)

C3_Witness ==
    /\ Done("accept_swap")
    /\ ByParticipant
    /\ W.status_code = 200
    /\ Item(PreSwap).status = "accepted"
    /\ MessagesTo(W.pre.messages, W.req.swap_id, Item(PreSwap).ownerId) # {}

\* ------------------------------------------------------------- C4
AllFieldsGiven == \A f \in required_fields : W.req[f] # Absent

\* C4: a creation request with all required fields whose requesterId equals
\* its ownerId is answered 400 and the Swaps table is as before, whether or
\* not that user is registered and whatever listings the request names.
C4_SelfSwapRejected ==
    (/\ Done("create_swap")
     /\ AllFieldsGiven
     /\ W.req.requesterId = W.req.ownerId)
    => /\ W.status_code = 400
       /\ swaps = W.pre.swaps

C4_Witness ==
    /\ Done("create_swap")
    /\ W.req.requesterId = "u1"
    /\ W.req.ownerId = "u1"
    /\ W.status_code = 400
    /\ swaps # {}

\* ------------------------------------------------------------- C5
Registered(user_id) == user_id \in UserIds

ActiveListingOf(listing_id, user_id) ==
    \E l \in listings :
       l.listingId = listing_id /\ l.status = "active" /\ l.userId = user_id

\* A creation request that violates a precondition on users or listings.
ViolatesPrecondition ==
    \/ ~Registered(W.req.requesterId)
    \/ ~Registered(W.req.ownerId)
    \/ ~ActiveListingOf(W.req.requesterListingId, W.req.requesterId)
    \/ ~ActiveListingOf(W.req.ownerListingId, W.req.ownerId)

\* C5: a creation request that names an unregistered requester or owner, a
\* missing or inactive listing, or a listing its user does not own, is
\* answered with an error and writes nothing: the Swaps and Messages tables
\* are as before.
C5_FailedCreateWritesNothing ==
    (/\ Done("create_swap")
     /\ ViolatesPrecondition)
    => /\ W.status_code >= 400
       /\ swaps = W.pre.swaps
       /\ messages = W.pre.messages

C5_Witness ==
    /\ Done("create_swap")
    /\ W.req.requesterListingId = "l3"
    /\ W.req.requesterId = "u1"
    /\ W.status_code = 404
    /\ swaps # {}

\* ------------------------------------------------------------- C6
\* C6: a creation answered 200 adds exactly one swap, with a new identifier,
\* status pending, no completion timestamp and the requester, owner and
\* listings of the request; it stores no message and no stored message
\* belongs to the new swap.
C6_CreatedPendingNoMessages ==
    (Done("create_swap") /\ W.status_code = 200)
    => /\ W.pre.swaps \subseteq swaps
       /\ Cardinality(swaps \ W.pre.swaps) = 1
       /\ \A s \in swaps \ W.pre.swaps :
            /\ \A o \in W.pre.swaps : o.swapId # s.swapId
            /\ s.status = "pending"
            /\ s.completedAt = NoneTime
            /\ s.requesterId = W.req.requesterId
            /\ s.ownerId = W.req.ownerId
            /\ s.requesterListingId = W.req.requesterListingId
            /\ s.ownerListingId = W.req.ownerListingId
            /\ \A m \in messages : m.swapId # s.swapId
       /\ messages = W.pre.messages

C6_Witness ==
    /\ Done("create_swap")
    /\ W.status_code = 200
    /\ messages # {}
    /\ Cardinality(swaps) = 1

\* ------------------------------------------------------------- C7
DeletePermitted ==
    /\ PreSwap # {}
    /\ W.req.user_id = Item(PreSwap).requesterId
    /\ Item(PreSwap).status = "pending"

\* C7: a delete request succeeds exactly when the swap is stored, the actor
\* is its requester and its status is pending; when it fails, the Swaps
\* table (the swap record included) and the Messages table are as before.
C7_DeleteOnlyPendingByRequester ==
    Done("delete_swap")
    => /\ (W.status_code = 200) <=> DeletePermitted
       /\ W.status_code # 200 =>
            /\ W.status_code >= 400
            /\ swaps = W.pre.swaps
            /\ messages = W.pre.messages

C7_Witness ==
    /\ Done("delete_swap")
    /\ PreSwap # {}
    /\ W.req.user_id = Item(PreSwap).requesterId
    /\ Item(PreSwap).status = "accepted"
    /\ W.status_code = 404

\* A delete that is about to remove the record, or has removed it.
Removing(c) ==
    /\ c.op = "delete_swap"
    /\ c.pc = "delete_item" \/ (c.pc = "done" /\ c.status_code = 200)

\* The cancellation message that delete c stored for recipient r.
CancellationsTo(c, r) ==
    { m \in messages :
        /\ \E k \in c.loc.created : k.swapId = m.swapId /\ k.messageId = m.messageId
        /\ m.swapId = c.req.swap_id
        /\ m.recipientId = r
        /\ m.senderId = SYSTEM_SENDER_ID
        /\ m.messageType = "system"
        /\ m.eventType = SWAP_CANCELLED }

\* C8: a successful delete stores one SWAP_CANCELLED system message for the
\* requester and one for the owner before it removes the swap record: whenever
\* a delete is at its removal or past it, both of its messages are stored.
C8_CancellationsBeforeRemoval ==
    \A p \in DOMAIN procs :
       Removing(procs[p]) =>
          LET c == procs[p]
              swap == Item(c.loc.existing)
          IN  /\ Cardinality(c.loc.created) = 2
              /\ Cardinality(CancellationsTo(c, swap.requesterId)) = 1
              /\ Cardinality(CancellationsTo(c, swap.ownerId)) = 1

\* C8 happens: a delete has answered with success, the record is gone and
\* another worker is in the middle of a request.
C8_Witness ==
    \E p \in DOMAIN procs :
       /\ procs[p].op = "delete_swap"
       /\ procs[p].pc = "done"
       /\ procs[p].status_code = 200
       /\ get_swap(swaps, procs[p].req.swap_id) = {}
       /\ \E q \in DOMAIN procs \ {p} : procs[q].pc \notin {"idle", "done"}

\* MessageRepository.mark_message_as_read(swap_id, message_id, recipient_id)
\* called on the given tables: the tables and the context it ends in.
MarkRead(st, swap_id, message_id, recipient_id) ==
    Run(st,
        Goto(StartCtx("mark_message_as_read",
                      [NoReq EXCEPT !.swap_id = swap_id, !.message_id = message_id,
                                    !.user_id = recipient_id],
                      <<>>),
             "mark_message_as_read"),
        now)

\* What a markRead returns and leaves stored: the message, read. (A None,
\* for which the route answers 404, would leave loc.message empty.)
ReturnsRead(r, swap_id, message_id) ==
    /\ r.c.loc.message # {}
    /\ r.c.status_code # 404
    /\ r.c.loc.message = get_message(r.st.messages, swap_id, message_id)
    /\ \A m \in r.c.loc.message : m.isRead

\* C9: markRead is idempotent. For every stored message and its recipient,
\* the first call leaves the message stored with read = true and otherwise as
\* it was, and a second call returns that message, not None, and leaves the
\* tables as the first call left them. Seen at the route as well: for a
\* recipient's request that passed the participant check the repository
\* returned the message read, and the same request again gets the same
\* message and the same answer, and changes nothing.
C9_MarkReadIdempotent ==
    /\ \A m \in messages :
         \A first \in MarkRead(Tables, m.swapId, m.messageId, m.recipientId) :
            /\ ReturnsRead(first, m.swapId, m.messageId)
            /\ first.st.messages = (messages \ {m}) \cup {[m EXCEPT !.isRead = TRUE]}
            /\ \A second \in MarkRead(first.st, m.swapId, m.messageId, m.recipientId) :
                 /\ ReturnsRead(second, m.swapId, m.messageId)
                 /\ second.st = first.st
                 /\ second.c.loc.message = first.c.loc.message
    /\ ( /\ Done("mark_message_as_read")
         /\ PreMessage # {}
         /\ \A m \in PreMessage : m.recipientId = W.req.user_id
         /\ verify_user_in_swap(W.pre.swaps, W.req.swap_id, W.req.user_id) = 0 )
       => /\ ReturnsRead([st |-> Tables, c |-> W], W.req.swap_id, W.req.message_id)
          /\ \A again \in Run(Tables, Restart(W), now) :
               /\ ReturnsRead(again, W.req.swap_id, W.req.message_id)
               /\ again.st = Tables
               /\ again.c.loc.message = W.loc.message
               /\ again.c.status_code = W.status_code

\* C9 happens: an unread message was marked by its recipient through the
\* route, and is stored read.
C9_Witness ==
    /\ Done("mark_message_as_read")
    /\ \E m \in PreMessage : ~m.isRead /\ m.recipientId = W.req.user_id
    /\ \E m \in W.loc.message : m.isRead /\ m \in messages

\* C10: deleteMessage removes a message only for its sender and only if it is
\* a user message; a system message is never removed, not even for a caller
\* whose identifier is the system sender's; every failed request leaves the
\* stored messages as they were.
C10_DeleteOnlyOwnUserMessage ==
    Done("delete_message") =>
       /\ W.status_code = 204 =>
            /\ PreMessage # {}
            /\ \A m \in PreMessage :
                 m.senderId = W.req.user_id /\ m.messageType = "user"
            /\ messages = W.pre.messages \ PreMessage
       /\ (\E m \in PreMessage : m.messageType = "system") => W.status_code # 204
       /\ W.status_code # 204 => messages = W.pre.messages

\* C10 happens: a participant registered under the system sender's
\* identifier asked to delete a system message, and was refused by
\* delete_message.
C10_Witness ==
    /\ Done("delete_message")
    /\ W.req.user_id = SYSTEM_SENDER_ID
    /\ \E m \in PreMessage : m.messageType = "system" /\ m.senderId = W.req.user_id
    /\ W.status_code = 404
    /\ W.detail = "Message not found or user is not the sender"
    /\ PreMessage \subseteq messages

\* ------------------------------------------------------------- C11
RECURSIVE SumOfCounts(_)
SumOfCounts(breakdown) ==
    IF breakdown = <<>> THEN 0
    ELSE breakdown[1].count + SumOfCounts(Tail(breakdown))

C12_StrangerListAsNotFound ==
    (/\ Done("get_messages_for_swap")
     /\ PreSwap # {}
     /\ W.req.user_id # Item(PreSwap).requesterId
     /\ W.req.user_id # Item(PreSwap).ownerId)
    => /\ W.status_code >= 400
       /\ CodesOn([swaps |-> W.pre.swaps \ PreSwap, messages |-> W.pre.messages,
                   nextSwapId |-> nextSwapId], W) = {W.status_code}

\* ------------------------------------------------------------- C13
\* C13: listForSwap returns the messages stored for the swap, each once,
\* oldest first: of two listed messages the one with the smaller timestamp
\* comes first, whatever their identifiers. (Refuted: the order is the one of
\* the message identifiers.)
C13_ListedOldestFirst ==
    (/\ Done("get_messages_for_swap")
     /\ verify_user_in_swap(W.pre.swaps, W.req.swap_id, W.req.user_id) = 0)
    => LET listed == W.loc.listed
       IN  /\ {listed[i] : i \in DOMAIN listed} =
                {m \in messages : m.swapId = W.req.swap_id}
           /\ Len(listed) = Cardinality({m \in messages : m.swapId = W.req.swap_id})
           /\ \A i, j \in DOMAIN listed :
                listed[i].timestamp < listed[j].timestamp => i < j

\* ------------------------------------------------------------- C14
\* C14: the status machine checks only membership and the value: whatever
\* the stored status, terminal ones included, a transition that a participant
\* requests to one of the five statuses is answered 200 and the stored status
\* is the requested one.
C14_AnyTransitionByParticipant ==
    (/\ DoneIn(SwapOps)
     /\ ByParticipant
     /\ TargetStatus \in valid_statuses)
    => /\ W.status_code = 200
       /\ \E s \in get_swap(swaps, W.req.swap_id) :
            /\ s.status = TargetStatus
            /\ s = [Item(PreSwap) EXCEPT !.status = s.status, !.updatedAt = s.updatedAt,
                                         !.completedAt = s.completedAt,
                                         !.message = s.message,
                                         !.meetupDetails = s.meetupDetails]
       /\ swaps \ get_swap(swaps, W.req.swap_id) = W.pre.swaps \ PreSwap

\* C14 happens: a completed swap was set back to pending by its requester.
C14_Witness ==
    /\ Done("update_swap")
    /\ ByParticipant
    /\ W.req.user_id = Item(PreSwap).requesterId
    /\ Item(PreSwap).status = "completed"
    /\ W.req.status = "pending"
    /\ \E s \in get_swap(swaps, W.req.swap_id) : s.status = "pending"

\* ------------------------------------------------------------- C15
\* The status a convenience action stands for.
StatusOfAction ==
    CASE W.op = "accept_swap" -> "accepted"
      [] W.op = "reject_swap" -> "rejected"
      [] W.op = "complete_swap" -> "completed"
      [] OTHER -> Absent

\* The generic transition with the status of the action and the optional
\* fields of its request, run on the tables the action found.
AsGenericTransition ==
    Run([swaps |-> W.pre.swaps, messages |-> W.pre.messages, nextSwapId |-> nextSwapId],
        [Restart(W) EXCEPT !.op = "update_swap", !.req.status = StatusOfAction],
        now)

\* C15: accept, reject and complete are sugar over the generic transition:
\* the action leaves the Swaps table and the Messages table as the generic
\* transition with its status and the same optional fields leaves them, so a
\* field the caller did not supply keeps its stored value. (Refuted: an
\* action without a message stores the empty text.)
C15_ConvenienceIsSugar ==
    DoneIn({"accept_swap", "reject_swap", "complete_swap"}) =>
       \A g \in AsGenericTransition :
          /\ g.st.swaps = swaps
          /\ g.st.messages = messages

\* ------------------------------------------------------------- C16
\* A transition that has written the swap.
HasWritten(c) ==
    /\ c.op = "update_swap"
    /\ c.loc.updated_swap # {}
    /\ c.pc \in {"create_system_message", "put_system_message", "done"}

\* The messages of transition c carry a previous status that is not the one
\* its write replaced.
StalePrevious(c) ==
    /\ HasWritten(c)
    /\ c.loc.created # {}
    /\ \E s \in c.loc.replaced : s.status # c.loc.previous_status
    /\ \A m \in c.loc.created :
         m \in messages /\ m.metadata.previous_status = c.loc.previous_status

\* C16: between its read of the status and its write a transition is not
\* guarded: the status-changed check and the messages use the status that
\* was read, whatever status the write replaces. (The witness is the race:
\* two transitions to accepted both read pending, both write, both emit.)
C16_CheckUsesStatusRead ==
    \A p \in DOMAIN procs :
       HasWritten(procs[p]) =>
          LET c == procs[p]
          IN  /\ c.loc.status_changed = (c.loc.previous_status # c.loc.new_status)
              /\ \A m \in c.loc.created :
                   /\ m.metadata.previous_status = c.loc.previous_status
                   /\ m.metadata.new_status = c.loc.new_status
              /\ (c.pc = "done" /\ c.status_code = 200) =>
                   Cardinality(c.loc.created) =
                     IF c.loc.status_changed /\ EventTypeFor(c.loc.new_status) # None
                       THEN 2 ELSE 0

\* C16 happens: two transitions to accepted on the same swap have both
\* answered; one replaced the status accepted while reporting pending as the
\* previous one; four swap_accepted messages are stored for the one change.
C16_Witness ==
    \E p, q \in DOMAIN procs :
       /\ p # q
       /\ procs[p].pc = "done" /\ procs[q].pc = "done"
       /\ procs[p].op = "update_swap" /\ procs[q].op = "update_swap"
       /\ procs[p].req.swap_id = procs[q].req.swap_id
       /\ procs[p].req.status = "accepted" /\ procs[q].req.status = "accepted"
       /\ StalePrevious(procs[q])
       /\ \E s \in procs[q].loc.replaced : s.status = "accepted"
       /\ Cardinality({m \in messages : /\ m.swapId = procs[p].req.swap_id
                                        /\ m.eventType = SWAP_ACCEPTED}) = 4

\* ------------------------------------------------------------- C17
\* C17: in every reachable state every stored swap has a requester
\* identifier different from its owner identifier. (Refuted when a transition
\* interleaves with a delete: its write stores a record with neither.)
C17_RequesterIsNotOwner ==
    \A s \in swaps : s.requesterId # s.ownerId

\* ------------------------------------------------------------- C18
\* C18: a location search that answers uses as its centre the geocoded
\* address when an address is given, otherwise the geocoded postal code when
\* one is given, and the explicit lat/lng pair only when neither is given.
\* (Refuted: the code looks at the lat/lng pair first.)
C18_CentreAddressThenZipThenCoordinates ==
    (Done("search_listings_by_location") /\ W.status_code = 200) =>
       LET q == Item(W.req.query)
           center == Item(W.loc.search).search_center
       IN  IF Truthy(q.address) THEN {center} \in geocode_address(q.address)
           ELSE IF Truthy(q.zip_code) THEN {center} \in get_zip_code_coordinates(q.zip_code)
           ELSE {center.lat} = q.lat /\ {center.lng} = q.lng

\* ------------------------------------------------------------- C19
\* The images of the request that the checks of type and size refuse.
Refused(form) ==
    {i \in DOMAIN form.images :
       \/ form.images[i].content_type \notin allowed_image_types
       \/ form.images[i].size > max_image_size_mb}

\* The keys of a sequence of uploaded images.
KeysOf(uploaded_images) == {uploaded_images[k] : k \in DOMAIN uploaded_images}

\* C19: when an image of a listing creation fails (its type or size is
\* refused, or its upload fails), the request answers with an error, a delete
\* was attempted for every image the request had uploaded, no image after the
\* failed one was uploaded and no listing was stored; and a request that gets
\* as far as its images with a refused image among them does fail, at that
\* image at the latest.
C19_FailedImageRollsBack ==
    Done("create_listing") =>
       LET form == Item(W.req.form)
           i == W.loc.failed_image
       IN  /\ i > 0 =>
                /\ W.status_code >= 400
                /\ W.loc.delete_attempts = W.loc.uploaded_images
                /\ Len(W.loc.uploaded_images) = i - 1
                /\ bucket \ W.pre.bucket \subseteq KeysOf(W.loc.uploaded_images)
                /\ listings = W.pre.listings
           /\ (W.status_code \notin {400, 404} /\ Refused(form) # {}) =>
                /\ i > 0
                /\ \A j \in Refused(form) : i <= j

\* C19 happens: the third image of a request is refused after two were
\* uploaded; both were deleted again and no listing was stored.
C19_Witness ==
    /\ Done("create_listing")
    /\ W.loc.failed_image = 3
    /\ 3 \in Refused(Item(W.req.form))
    /\ Len(W.loc.uploaded_images) = 2
    /\ Len(W.loc.delete_attempts) = 2
    /\ bucket = W.pre.bucket
    /\ listings = W.pre.listings
    /\ W.status_code = 500

\* ------------------------------------------------------------- C20
\* C20: of the create-user requests that have answered and name the same
\* user identifier at most one succeeded; a create-user request with all
\* required fields for an identifier that was stored when the request arrived
\* answers 409; and the write of a create-user request replaces no stored
\* user. (Refuted when two requests for the same new identifier interleave.)
C20_OneCreationPerUser ==
    /\ \A p, q \in DOMAIN procs :
          (/\ p # q
           /\ procs[p].pc = "done" /\ procs[q].pc = "done"
           /\ procs[p].op = "create_user" /\ procs[q].op = "create_user"
           /\ Item(procs[p].req.user_data).userId = Item(procs[q].req.user_data).userId)
          => ~(procs[p].status_code = 200 /\ procs[q].status_code = 200)
    /\ \A p \in DOMAIN procs :
          (procs[p].pc = "done" /\ procs[p].op = "create_user")
          => /\ procs[p].loc.replaced_user = {}
             /\ (/\ procs[p].status_code # 400
                 /\ get_user_item(procs[p].pre.users, Item(procs[p].req.user_data).userId) # {})
                => procs[p].status_code = 409

\* ------------------------------------------------------------- C21
\* The request names no stored message, or one addressed to somebody else.
NotTheRecipient ==
    \/ PreMessage = {}
    \/ \E m \in PreMessage : m.recipientId # W.req.user_id

\* C21: a markRead request by anyone but the recipient of the message, or
\* for a message that is not stored, is answered 404 and leaves every stored
\* message, its read flag included, as it was; so does the repository call
\* on any stored message for any other user. (Refuted at the route: a caller
\* who is no participant of the swap is answered 403.)
C21_NonRecipientNotFound ==
    /\ \A m \in messages : \A u \in (Callers \cup {SYSTEM_SENDER_ID}) \ {m.recipientId} :
          \A r \in MarkRead(Tables, m.swapId, m.messageId, u) :
             r.c.loc.message = {} /\ r.c.status_code = 404 /\ r.st = Tables
    /\ (Done("mark_message_as_read") /\ NotTheRecipient)
       => W.status_code = 404 /\ messages = W.pre.messages

\* ------------------------------------------------------------- C22
\* C22: a participant's transition to pending of a swap whose status was
\* another one succeeds, leaves the swap stored with status pending, and
\* leaves the message store as it was.
C22_ReturnToPendingIsSilent ==
    (/\ DoneIn(SwapOps)
     /\ ByParticipant
     /\ TargetStatus = "pending"
     /\ Item(PreSwap).status # "pending")
    => /\ W.status_code = 200
       /\ \E s \in get_swap(swaps, W.req.swap_id) : s.status = "pending"
       /\ messages = W.pre.messages

\* C22 happens: a completed swap, whose completion was announced, went back
\* to pending.
C22_Witness ==
    /\ Done("update_swap")
    /\ ByParticipant
    /\ TargetStatus = "pending"
    /\ Item(PreSwap).status = "completed"
    /\ \E s \in get_swap(swaps, W.req.swap_id) : s.status = "pending"
    /\ \E m \in messages : m.swapId = W.req.swap_id /\ m.eventType = SWAP_COMPLETED
    /\ messages = W.pre.messages

\* ------------------------------------------------------------- C23
\* The stored swap the request names.
PostSwap == get_swap(swaps, W.req.swap_id)

\* C23: every stored swap with status completed has a completion timestamp;
\* a participant's transition to completed leaves completedAt equal to the
\* updatedAt it writes, the time of the request, and any other transition
\* leaves completedAt as it was; and every participant's transition, with a
\* valid status or with none, succeeds and rewrites updatedAt with the time of
\* the request. (Refuted: a transition without a status is refused by the
\* table and writes nothing.)
C23_CompletedAtAndUpdatedAt ==
    /\ \A s \in swaps : s.status = "completed" => s.completedAt # NoneTime
    /\ (/\ DoneIn(SwapOps)
        /\ ByParticipant
        /\ TargetStatus \in valid_statuses \cup {Absent})
       => /\ W.status_code = 200
          /\ \A s \in PostSwap :
               /\ s.updatedAt = now
               /\ s.completedAt = IF TargetStatus = "completed" THEN s.updatedAt
                                  ELSE Item(PreSwap).completedAt

\* ------------------------------------------------------------- C24
\* The metadata holds all four keys, each with a value.
FullMetadata(metadata) ==
    /\ metadata.previous_status \notin {None, Absent}
    /\ metadata.new_status \notin {None, Absent}
    /\ metadata.actor_id \notin {None, Absent}
    /\ metadata.timestamp # NoneTime

\* C24: every stored system message carries a previous status, a new status,
\* an acting user and a timestamp in its metadata; the messages a transition
\* or a delete stores name the status the swap had before the request as the
\* previous one, the caller as the acting user, and, for a transition, the
\* status the swap has afterwards as the new one. (Refuted: the messages of a
\* delete have no new status.)
C24_SystemMessageMetadata ==
    /\ \A m \in messages : m.messageType = "system" => FullMetadata(m.metadata)
    /\ DoneIn(SwapOps \cup {"delete_swap"})
       => \A m \in NewMessages :
             /\ m.metadata.previous_status = Item(PreSwap).status
             /\ m.metadata.actor_id = W.req.user_id
             /\ \A s \in PostSwap : m.metadata.new_status = s.status

\* ------------------------------------------------------------- C25
\* A markRead request for message m by its recipient is being served.
MarkedByRecipient(m, workers) ==
    \E p \in DOMAIN workers :
       /\ workers[p].op = "mark_message_as_read"
       /\ workers[p].req.swap_id = m.swapId
       /\ workers[p].req.message_id = m.messageId
       /\ workers[p].req.user_id = m.recipientId

\* C25: a message is first stored unread; a step that keeps a stored message
\* leaves it as it was or sets its read flag from false to true, the latter
\* only in a markRead request by the message's recipient; no step clears the
\* flag or changes another field. (Refuted when a markRead interleaves with
\* the deletion of the message: its write stores a message that is read from
\* the start and holds nothing but its key.)
C25_ReadFlagMonotonic ==
    [][ /\ \A m \in messages :
             \A n \in get_message(messages', m.swapId, m.messageId) :
                \/ n = m
                \/ /\ n = [m EXCEPT !.isRead = TRUE]
                   /\ ~m.isRead
                   /\ MarkedByRecipient(m, procs')
        /\ \A n \in messages' :
             get_message(messages, n.swapId, n.messageId) = {} => ~n.isRead ]_vars

\* ------------------------------------------------------------- deleted swaps
\* The requester or a stranger asks for the deletion of the swap.
DeleteByUser ==
    \E s \in 1..MaxConversations, u \in Callers :
       Handle("delete_swap", [NoReq EXCEPT !.swap_id = s, !.user_id = u])

\* A registered user asks for the deletion of a message.
DeleteMessageByUser ==
    \E s \in 1..MaxConversations, u \in UserIds, i \in MessageIds :
       Handle("delete_message",
              [NoReq EXCEPT !.swap_id = s, !.user_id = u, !.message_id = i])

NextArchive ==
    \/ CreateValidSwap
    \/ SendByParticipant
    \/ MarkByUser
    \/ DeleteMessageByUser
    \/ DeleteByUser
    \/ GetMessagesForSwap
    \/ GetUnreadMessageCount
    \/ Return

\* One worker serving the four message routes and the unread count, before
\* and after the deletion of the swap.
SpecArchive == Init /\ [][NextArchive]_vars

\* ------------------------------------------------------------- store failures
\* The put_item of create_system_message that the Messages table refuses:
\* none, the one for the requester, or the one for the owner.
RefusedPuts == {0, 1, 2}

\* A request handled from its arrival to its answer, while the Messages
\* table refuses the k-th put_item of the request.
HandleRefusing(op, req, k) ==
    /\ \A p \in DOMAIN procs : procs[p].pc = "idle"
    /\ \E r \in Run(Tables, [StartCtx(op, req, LowestUuids(messages))
                                 EXCEPT !.refused_put = k], now) :
         /\ swaps' = r.st.swaps
         /\ messages' = r.st.messages
         /\ nextSwapId' = r.st.nextSwapId
         /\ users' = r.st.users
         /\ listings' = r.st.listings
         /\ bucket' = r.st.bucket
         /\ procs' = [procs EXCEPT ![1] = r.c]
    /\ UNCHANGED now

\* A participant accepts the swap or returns it to pending; the Messages
\* table may refuse a put.
UpdateDuringOutage ==
    \E u \in UserIds, x \in {"accepted", "pending"}, k \in RefusedPuts :
       HandleRefusing("update_swap",
                      [NoReq EXCEPT !.swap_id = 1, !.user_id = u, !.status = x], k)

NextOutage ==
    \/ CreateValidSwap
    \/ UpdateDuringOutage
    \/ Return

SpecOutage == Init /\ [][NextOutage]_vars

\* ------------------------------------------------------------- C26
\* The system messages of swap swap_id addressed to user_id.
SystemTo(messageItems, swap_id, user_id) ==
    {m \in messageItems : /\ m.swapId = swap_id
                          /\ m.messageType = "system"
                          /\ m.recipientId = user_id}

\* No request is in progress.
Quiet == \A p \in DOMAIN procs : procs[p].pc \in {"idle", "done"}

\* C26: when no request is in progress, every swap has as many system
\* messages addressed to its requester as to its owner, and every system
\* message has an event type; no request leaves fewer system messages to
\* either of them than it found.
C26_SystemMessagesInPairs ==
    Quiet =>
       /\ \A s \in SwapIds :
            Cardinality(SystemTo(messages, s, ValidCreate.requesterId)) =
            Cardinality(SystemTo(messages, s, ValidCreate.ownerId))
       /\ \A m \in messages :
            m.messageType = "system" => m.eventType \notin {None, Absent, ""}
       /\ \A p \in DOMAIN procs : \A s \in SwapIds :
            \A u \in {ValidCreate.requesterId, ValidCreate.ownerId} :
               procs[p].pc = "done" =>
                  Cardinality(SystemTo(messages, s, u)) >=
                  Cardinality(SystemTo(procs[p].pre.messages, s, u))

\* C26 happens: a swap was accepted and its two system messages are stored;
\* the owner asked to delete the one addressed to them and was refused.
C26_Witness ==
    /\ Done("delete_message")
    /\ W.req.user_id = ValidCreate.ownerId
    /\ \E m \in PreMessage : m.messageType = "system" /\ m.recipientId = W.req.user_id
    /\ W.status_code = 404
    /\ Cardinality(SystemTo(messages, W.req.swap_id, ValidCreate.requesterId)) = 1
    /\ Cardinality(SystemTo(messages, W.req.swap_id, ValidCreate.ownerId)) = 1

\* ------------------------------------------------------------- C27
\* The system messages of swap swap_id that announce the status new_status.
Announcing(swap_id, new_status) ==
    {m \in messages : /\ m.swapId = swap_id
                      /\ m.messageType = "system"
                      /\ m.metadata.new_status = new_status}

\* C27: when the Messages table refuses the first or the second put of a
\* participant's transition, the request is answered 500, the new status
\* stays stored and fewer than two messages were stored for it (none, or
\* the requester's only); a request for the status the swap already has is
\* answered 200 and stores no message.
C27_TransitionNotRolledBack ==
    (DoneIn(SwapOps) /\ ByParticipant /\ TargetStatus \in valid_statuses) =>
       /\ (Item(PreSwap).status # TargetStatus /\ TargetStatus # "pending"
           /\ W.refused_put \in {1, 2}) =>
             /\ W.status_code = 500
             /\ \E s \in PostSwap : s.status = TargetStatus
             /\ Cardinality(NewMessages) = W.refused_put - 1
             /\ \A m \in NewMessages : m.recipientId = Item(PreSwap).requesterId
       /\ Item(PreSwap).status = TargetStatus =>
             /\ W.status_code = 200
             /\ NewMessages = {}
             /\ PostSwap # {}

\* C27 happens: the acceptance was answered 500 after the requester's message
\* only; the same request, sent again, was answered 200 and the owner still
\* has no message about it.
C27_Witness ==
    /\ Done("update_swap")
    /\ ByParticipant
    /\ TargetStatus = "accepted"
    /\ Item(PreSwap).status = "accepted"
    /\ W.status_code = 200
    /\ Cardinality(Announcing(W.req.swap_id, "accepted")) = 1
    /\ \A m \in Announcing(W.req.swap_id, "accepted") :
          m.recipientId = Item(PreSwap).requesterId

\* ------------------------------------------------------------- C28
\* C28: no step stores a record under a swap id that had none (the
\* specification it is checked under has no creation, so a missing record was
\* deleted), and no system message is addressed to a missing recipient.
C28_TransitionNeverCreates ==
    /\ [](\A m \in messages :
            m.messageType = "system" => m.recipientId \notin {None, Absent, ""})
    /\ [][\A s \in SwapIds : get_swap(swaps, s) = {} => get_swap(swaps', s) = {}]_vars

\* ------------------------------------------------------------- C29
\* C29: a step that removes a swap record removes a record whose stored
\* status is pending.
C29_RemovedOnlyWhilePending ==
    [][\A s \in swaps : get_swap(swaps', s.swapId) = {} => s.status = "pending"]_vars

\* ------------------------------------------------------------- C30
MessageOps ==
    {"get_messages_for_swap", "send_message", "mark_message_as_read", "delete_message"}

\* The swap the request names was created and is stored no more.
OnDeletedSwap ==
    /\ W.req.swap_id \in 1..(nextSwapId - 1)
    /\ PreSwap = {}

\* The unread messages of swap swap_id addressed to user_id.
UnreadOf(messageItems, swap_id, user_id) ==
    {m \in unread_messages(messageItems, user_id) : m.swapId = swap_id}

\* The number the unread count answered for swap swap_id.
AnsweredFor(unread, swap_id) ==
    IF \E i \in DOMAIN unread.swaps : unread.swaps[i].swap_id = swap_id
      THEN unread.swaps[CHOOSE i \in DOMAIN unread.swaps :
                           unread.swaps[i].swap_id = swap_id].count
      ELSE 0

\* C30: a successful delete of a swap keeps every stored message and adds
\* two unread cancellation messages; once the swap is deleted, list, send,
\* markRead and delete on it answer 404 "Swap not found" and change nothing,
\* the unread count still counts its unread messages, and no request leaves
\* fewer unread messages of it to anybody than it found.
C30_DeletedSwapKeepsUnread ==
    /\ (Done("delete_swap") /\ W.status_code = 200) =>
          /\ PostSwap = {}
          /\ W.pre.messages \subseteq messages
          /\ Cardinality(NewMessages) = 2
          /\ \A m \in NewMessages : m.swapId = W.req.swap_id /\ ~m.isRead
    /\ (DoneIn(MessageOps) /\ OnDeletedSwap) =>
          /\ W.status_code = 404
          /\ W.detail = "Swap not found"
          /\ messages = W.pre.messages
    /\ Done("get_unread_message_count") =>
          /\ W.status_code = 200
          /\ \A s \in SwapIds :
                AnsweredFor(W.loc.unread, s) =
                Cardinality(UnreadOf(messages, s, W.req.user_id))
    /\ W.pc = "done" =>
          \A s \in 1..(nextSwapId - 1) : \A u \in Callers :
             get_swap(W.pre.swaps, s) = {} =>
                Cardinality(UnreadOf(messages, s, u)) >=
                Cardinality(UnreadOf(W.pre.messages, s, u))

\* C30 happens: the swap is deleted, the owner asked to mark the cancellation
\* message addressed to them as read and was answered "Swap not found"; the
\* message is still unread.
C30_Witness ==
    /\ Done("mark_message_as_read")
    /\ OnDeletedSwap
    /\ W.req.user_id = ValidCreate.ownerId
    /\ \E m \in PreMessage :
          /\ m.eventType = SWAP_CANCELLED
          /\ m.recipientId = W.req.user_id
          /\ m \in unread_messages(messages, W.req.user_id)
    /\ W.detail = "Swap not found"
====
